---------------------------- MODULE Spec2Model ----------------------------
(***************************************************************************)
(* Immersive Speak: the speech synchronisation engine of the content       *)
(* script (chunker, timing normaliser, playback scheduler, roam            *)
(* navigation and the session life cycle), modelled from                   *)
(* src/unnamed/part_001.                                                   *)
(*                                                                         *)
(* Six specifications share  the module:                                   *)
(*   SpecChunk  chunkTokens applied to bounded token lists                 *)
(*   SpecNorm   normalizeTimingMap applied to bounded sparse tables        *)
(*   SpecAlign  buildTimingMap applied to bounded words and transcripts    *)
(*   SpecSettings  a session's chunk cache and element states while the    *)
(*              stored settings change                                     *)
(*   SpecStream the background's stream handler for one request, and the   *)
(*              timing tables the content script builds from its messages  *)
(*   Spec       the session state machine (one JavaScript event loop:      *)
(*              every action is one task or one microtask)                 *)
(*                                                                         *)
(* The session machine covers activation by selection, the linear read,    *)
(* roam navigation, Escape, the stream port, the audio element and the     *)
(* highlight loop.  Pause/resume by Space, agent reads and speech mode are *)
(* not modelled; of the toasts only those of the stream handlers are       *)
(* observed.                                                               *)
(***************************************************************************)
EXTENDS Integers, Sequences, FiniteSets, TLC

VARIABLES
    ck,         \* chunker run: [tokens, maxChars, out, pc]
    tm,         \* timing-normaliser run: [n, sparse, dur, out, pc]
    cfg,        \* settings run: cachedSettings with a session's caches
    bg,         \* stream run: the background's handler of one "start" message
    rt,         \* retry run: one call of withRetry
    ls,         \* local-settings run: storage, cachedSettings, settingsPromise
    session,    \* the engine's `session` variable (NoSession = null)
    reads,      \* closures of the speakParagraph calls made so far
    port,       \* the runtime port that is connected, as the background sees it
    timers,     \* pending setTimeout callbacks (their tokens)
    micro,      \* the microtask queue (promise continuations), FIFO
    display,    \* the word shown by CSS.highlights "groq-tts-current"
    ticks,      \* pending requestAnimationFrame callbacks of highlight loops
    obs         \* observations: counters of toasts, requests, playback starts

vars == <<ck, tm, cfg, bg, rt, ls, session, reads, port, timers, micro, display, ticks, obs>>
smVars == <<session, reads, port, timers, micro, display, ticks, obs>>

-----------------------------------------------------------------------------
(* Bounds of the model *)

MaxTokens == 4      \* longest token list given to chunkTokens
MaxMaxChars == 6    \* largest maxChars given to chunkTokens
MaxWords == 4       \* longest word list given to normalizeTimingMap
MaxReads == 2       \* activations (speakParagraph calls) in one run
MaxSteps == 2       \* directional key presses in one run

-----------------------------------------------------------------------------
(* Small helpers *)

Max(a, b) == IF a >= b THEN a ELSE b
Min(a, b) == IF a <= b THEN a ELSE b

RECURSIVE SumSeq(_)
SumSeq(s) == IF s = <<>> THEN 0 ELSE Head(s) + SumSeq(Tail(s))

RECURSIVE SeqsUpTo(_, _)
\* all sequences over S of length 0..n
SeqsUpTo(S, n) ==
    IF n = 0 THEN {<<>>}
    ELSE LET shorter == SeqsUpTo(S, n - 1)
         IN  shorter \cup {Append(q, x) : q \in {p \in shorter : Len(p) = n - 1}, x \in S}

-----------------------------------------------------------------------------
(* Chunker.  A token is a sequence of characters; a chunk's text is the    *)
(* tokens joined by single spaces (Array.prototype.join(" ")).             *)

TerminalChars == {".", "!", "?"}
ClosingChars == {"\"", "'", ")", "\\"}

\* number of trailing "]" characters of t
RECURSIVE TrailingBrackets(_)
TrailingBrackets(t) ==
    IF t = <<>> \/ t[Len(t)] # "]" THEN 0
    ELSE 1 + TrailingBrackets(SubSeq(t, 1, Len(t) - 1))

\* /[.!?]+[\"')\\]]*$/ : the second class closes at its first "]", so the
\* pattern is one or more terminal characters, exactly one character of
\* the class " ' ) \ , then any number of "]", then the end of the text.
isSentenceEnd(t) ==
    LET k == TrailingBrackets(t)
        c == Len(t) - k
    IN  /\ c >= 2
        /\ t[c] \in ClosingChars
        /\ t[c - 1] \in TerminalChars

RECURSIVE JoinSpace(_)
JoinSpace(toks) ==
    IF toks = <<>> THEN <<>>
    ELSE IF Len(toks) = 1 THEN toks[1]
    ELSE toks[1] \o <<" ">> \o JoinSpace(Tail(toks))

mkChunk(current) == [text |-> JoinSpace(current), count |-> Len(current)]

\* a chunk as pushed by the main loop, with a note of the branch that
\* pushed it: the look-ahead branch (`found >= 0`) or a cut without it
Cut(current, lookAhead) ==
    [text |-> JoinSpace(current), count |-> Len(current), lookAhead |-> lookAhead]

\* Math.round(maxChars * 0.5), maxChars >= 0
Tolerance(maxChars) == (maxChars + 1) \div 2

\* mutant: the look-ahead has no window and runs to the next sentence end
RECURSIVE LookAheadUnbounded(_, _, _, _)
LookAheadUnbounded(tokens, maxChars, j, totalLen) ==
    IF j > Len(tokens) THEN 0
    ELSE IF isSentenceEnd(tokens[j]) THEN j
    ELSE LookAheadUnbounded(tokens, maxChars, j + 1, totalLen)

\* the look-ahead loop `for (let j = i; ...)`: the index of the nearest
\* sentence end within maxChars + tolerance, or 0 (the code's -1)
RECURSIVE LookAhead(_, _, _, _)
LookAhead(tokens, maxChars, j, totalLen) ==
    IF j > Len(tokens) THEN 0
    ELSE LET tl == totalLen + 1 + Len(tokens[j])
         IN  IF tl > maxChars + Tolerance(maxChars) THEN 0
             ELSE IF isSentenceEnd(tokens[j]) THEN j
             ELSE LookAhead(tokens, maxChars, j + 1, tl)

\* the main loop of chunkTokens; i is 1-based
RECURSIVE ChunkLoop(_, _, _, _, _, _)
ChunkLoop(tokens, maxChars, i, current, length, chunks) ==
    IF i > Len(tokens)
    THEN IF current # <<>> THEN Append(chunks, Cut(current, FALSE)) ELSE chunks
    ELSE
      LET token == tokens[i]
          addLength == (IF current # <<>> THEN 1 ELSE 0) + Len(token)
      IN  IF length + addLength > maxChars /\ current # <<>>
          THEN LET found == LookAhead(tokens, maxChars, i, length)
               IN  IF found > 0
                   THEN ChunkLoop(tokens, maxChars, found + 1, <<>>, 0,
                            Append(chunks, Cut(current \o SubSeq(tokens, i, found), TRUE)))
                   ELSE ChunkLoop(tokens, maxChars, i + 1, <<token>>, Len(token),
                            Append(chunks, Cut(current, FALSE)))
          ELSE ChunkLoop(tokens, maxChars, i + 1, Append(current, token),
                         length + addLength, chunks)

\* mutant: the hard cut starts the next chunk empty (`current = []`), so
\* the token that did not fit is lost
RECURSIVE ChunkLoopDropsToken(_, _, _, _, _, _)
ChunkLoopDropsToken(tokens, maxChars, i, current, length, chunks) ==
    IF i > Len(tokens)
    THEN IF current # <<>> THEN Append(chunks, mkChunk(current)) ELSE chunks
    ELSE
      LET token == tokens[i]
          addLength == (IF current # <<>> THEN 1 ELSE 0) + Len(token)
      IN  IF length + addLength > maxChars /\ current # <<>>
          THEN LET found == LookAhead(tokens, maxChars, i, length)
               IN  IF found > 0
                   THEN ChunkLoopDropsToken(tokens, maxChars, found + 1, <<>>, 0,
                            Append(chunks, mkChunk(current \o SubSeq(tokens, i, found))))
                   ELSE ChunkLoopDropsToken(tokens, maxChars, i + 1, <<>>, 0,
                            Append(chunks, mkChunk(current)))
          ELSE ChunkLoopDropsToken(tokens, maxChars, i + 1, Append(current, token),
                         length + addLength, chunks)

chunkTokensDropsToken(tokens, maxChars) ==
    ChunkLoopDropsToken(tokens, maxChars, 1, <<>>, 0, <<>>)

\* the chunks with the branch that pushed each
chunkCuts(tokens, maxChars) == ChunkLoop(tokens, maxChars, 1, <<>>, 0, <<>>)

\* chunkTokens(tokens, maxChars): the list of { text, count }
ChunksOf(cuts) == [k \in 1..Len(cuts) |-> [text |-> cuts[k].text, count |-> cuts[k].count]]

chunkTokens(tokens, maxChars) == ChunksOf(chunkCuts(tokens, maxChars))

\* offsets at which callers slice the word list (speakParagraph,
\* buildChunkMap): chunk k covers words offset+1 .. offset+count
ChunkOffset(chunks, k) == SumSeq([j \in 1..(k - 1) |-> chunks[j].count])

TokenAlphabet ==
    { <<"a">>, <<"a", "a", "a">>, <<"a", ".">>, <<"a", ".", ")">>,
      <<"a", ".", "\\">>,
      <<"a", "a", "a", "a", ".", ")">>,
      <<"a", "a", "a", "a", "a", "a", "a">> }

ChunkInputs(maxTokens, maxMaxChars) ==
    [tokens : SeqsUpTo(TokenAlphabet, maxTokens), maxChars : 1..maxMaxChars]

-----------------------------------------------------------------------------
(* Timing normaliser.  Times are JavaScript numbers; they are modelled as  *)
(* exact rationals <<numerator, denominator>> with denominator > 0.        *)

RECURSIVE Gcd(_, _)
Gcd(a, b) == IF b = 0 THEN a ELSE Gcd(b, a % b)

Abs(a) == IF a < 0 THEN -a ELSE a

RNorm(q) ==
    LET g == Gcd(Abs(q[1]), q[2])
    IN  IF q[1] = 0 THEN <<0, 1>> ELSE <<q[1] \div g, q[2] \div g>>

RInt(k) == <<k, 1>>
RAdd(a, b) == RNorm(<<a[1] * b[2] + b[1] * a[2], a[2] * b[2]>>)
RSub(a, b) == RNorm(<<a[1] * b[2] - b[1] * a[2], a[2] * b[2]>>)
RMul(a, b) == RNorm(<<a[1] * b[1], a[2] * b[2]>>)
\* a / k for an integer k > 0
RDivInt(a, k) == RNorm(<<a[1], a[2] * k>>)
RLt(a, b) == a[1] * b[2] < b[1] * a[2]
RLe(a, b) == a[1] * b[2] <= b[1] * a[2]
RMax(a, b) == IF RLt(a, b) THEN b ELSE a
RZero == <<0, 1>>

DefaultWordDuration == <<7, 20>>     \* 0.35
MinDurFactor == <<2, 5>>             \* 0.4
MinDurFloor == <<1, 25>>             \* 0.04

Null == [null |-> TRUE]

TEntry(i, s, e) == [wordIndex |-> i, start |-> s, end |-> e]

\* mutant: the fallback ignores the duration and gives every word the
\* default span
buildFallbackMapDefaultSpans(n, duration) ==
    [k \in 1..n |-> TEntry(k - 1, RMul(RInt(k - 1), DefaultWordDuration),
                                  RMul(RInt(k), DefaultWordDuration))]

\* buildFallbackMap(words, duration): n equal spans over [0, duration]
buildFallbackMap(n, duration) ==
    IF duration = RZero \/ n = 0 THEN <<>>
    ELSE LET per == RDivInt(duration, n)
         IN  [k \in 1..n |-> TEntry(k - 1, RMul(RInt(k - 1), per), RMul(RInt(k), per))]

\* the first loop: entries[entry.wordIndex] = {...entry}, later entries
\* overwriting earlier ones
RECURSIVE PlaceEntries(_, _)
PlaceEntries(entries, timingMap) ==
    IF timingMap = <<>> THEN entries
    ELSE PlaceEntries([entries EXCEPT ![Head(timingMap).wordIndex] = Head(timingMap)],
                      Tail(timingMap))

\* the spans (end - start) of the input entries with end > start
PositiveSpans(timingMap) ==
    LET pos == SelectSeq(timingMap, LAMBDA e : RLt(e.start, e.end))
    IN  [k \in 1..Len(pos) |-> RSub(pos[k].end, pos[k].start)]

RECURSIVE RSum(_)
RSum(s) == IF s = <<>> THEN RZero ELSE RAdd(Head(s), RSum(Tail(s)))

AvgDuration(n, timingMap, duration) ==
    LET spans == PositiveSpans(timingMap)
    IN  IF Len(spans) = 0
        THEN (IF duration # RZero THEN RDivInt(duration, n) ELSE DefaultWordDuration)
        ELSE RDivInt(RSum(spans), Len(spans))

\* `for (let i = firstKnown - 1; i >= 0; i--)`
RECURSIVE BackFill(_, _, _)
BackFill(entries, i, avg) ==
    IF i < 0 THEN entries
    ELSE LET next == entries[i + 1]
             end == IF next # Null THEN next.start ELSE RMul(avg, RInt(i + 1))
             start == RMax(RZero, RSub(end, avg))
         IN  BackFill([entries EXCEPT ![i] = TEntry(i, start, end)], i - 1, avg)

\* `while (next < entries.length && !entries[next]) next += 1`
RECURSIVE NextKnown(_, _, _)
NextKnown(entries, next, n) ==
    IF next < n /\ entries[next] = Null THEN NextKnown(entries, next + 1, n) ELSE next

\* the interior fill `for (let k = 1; k < gap; k++)`
RECURSIVE FillInterior(_, _, _, _, _, _)
FillInterior(entries, prev, gap, start, step, k) ==
    IF k >= gap THEN entries
    ELSE LET idx == prev + k
             s == RAdd(start, RMul(step, RInt(k - 1)))
             e == RAdd(start, RMul(step, RInt(k)))
         IN  FillInterior([entries EXCEPT ![idx] = TEntry(idx, s, e)],
                          prev, gap, start, step, k + 1)

\* the trailing fill
RECURSIVE FillTrailing(_, _, _, _, _, _)
FillTrailing(entries, prev, gap, start, avg, k) ==
    IF k >= gap THEN entries
    ELSE LET idx == prev + k
             end == RAdd(start, avg)
         IN  FillTrailing([entries EXCEPT ![idx] = TEntry(idx, start, end)],
                          prev, gap, end, avg, k + 1)

\* `for (let i = firstKnown + 1; i < entries.length; i++)`
RECURSIVE ForwardFill(_, _, _, _, _)
ForwardFill(entries, i, prev, n, avg) ==
    IF i >= n THEN entries
    ELSE IF entries[i] # Null THEN ForwardFill(entries, i + 1, i, n, avg)
    ELSE
      LET next == NextKnown(entries, i + 1, n)
          gap == next - prev
          start == IF entries[prev] # Null THEN entries[prev].end ELSE RMul(avg, RInt(prev))
          filled ==
            IF next < n
            THEN LET end == IF entries[next] # Null THEN entries[next].start
                            ELSE RAdd(start, RMul(avg, RInt(gap)))
                     raw == RDivInt(RSub(end, start), gap)
                     step == IF RLe(raw, RZero) THEN avg ELSE raw
                 IN  FillInterior(entries, prev, gap, start, step, 1)
            ELSE FillTrailing(entries, prev, gap, start, avg, 1)
      IN  ForwardFill(filled, i + 1, Min(next, n - 1), n, avg)

\* the loop that gives any index still empty the span [i*avg, i*avg + avg]
FillRemaining(entries, n, avg) ==
    [i \in 0..(n - 1) |->
        IF entries[i] # Null THEN entries[i]
        ELSE TEntry(i, RMul(RInt(i), avg), RAdd(RMul(RInt(i), avg), avg))]

MinDur(avg) == RMax(RMul(avg, MinDurFactor), MinDurFloor)

\* mutant: the final pass keeps each entry's own end (no minimum duration)
RECURSIVE MonotonicPassNoMinDur(_, _, _, _, _)
MonotonicPassNoMinDur(entries, i, n, lastEnd, minDur) ==
    IF i >= n THEN entries
    ELSE LET start == RMax(entries[i].start, lastEnd)
             end == RMax(entries[i].end, start)
         IN  MonotonicPassNoMinDur(
                 [entries EXCEPT ![i] = TEntry(entries[i].wordIndex, start, end)],
                 i + 1, n, end, minDur)

\* the final pass: start >= previous end, duration >= minDur
RECURSIVE MonotonicPass(_, _, _, _, _)
MonotonicPass(entries, i, n, lastEnd, minDur) ==
    IF i >= n THEN entries
    ELSE LET start == RMax(entries[i].start, lastEnd)
             end == RMax(entries[i].end, RAdd(start, minDur))
         IN  MonotonicPass(
                 [entries EXCEPT ![i] = TEntry(entries[i].wordIndex, start, end)],
                 i + 1, n, end, minDur)

FinalPass(entries, n, minDur) == MonotonicPass(entries, 0, n, RZero, minDur)

\* entries.findIndex(e => e), or -1
FirstKnown(entries, n) ==
    IF \A i \in 0..(n - 1) : entries[i] = Null THEN -1
    ELSE CHOOSE i \in 0..(n - 1) :
            entries[i] # Null /\ \A j \in 0..(i - 1) : entries[j] = Null

\* normalizeTimingMap(words, timingMap, duration) for n = words.length;
\* duration RZero stands for an absent (falsy) duration.  The result is a
\* sequence whose element k is the entry of word index k-1.
normalizeTimingMap(n, timingMap, duration) ==
    IF n = 0 THEN <<>>
    ELSE
      LET placed == PlaceEntries([i \in 0..(n - 1) |-> Null], timingMap)
          avg == AvgDuration(n, timingMap, duration)
          firstKnown == FirstKnown(placed, n)
      IN  IF firstKnown = -1
          THEN IF duration # RZero THEN buildFallbackMap(n, duration)
               ELSE [k \in 1..n |->
                        TEntry(k - 1, RMul(RInt(k - 1), avg), RMul(RInt(k), avg))]
          ELSE
            LET back == BackFill(placed, firstKnown - 1, avg)
                fwd == ForwardFill(back, firstKnown + 1, firstKnown, n, avg)
                all == FillRemaining(fwd, n, avg)
                fin == FinalPass(all, n, MinDur(avg))
            IN  [k \in 1..n |-> fin[k - 1]]

\* mutant: when the search ends in a gap the index left of it is returned
RECURSIVE FindLoopReturnsHi(_, _, _, _)
FindLoopReturnsHi(entries, time, lo, hi) ==
    IF lo > hi THEN Max(0, Min(Len(entries) - 1, hi))
    ELSE LET mid == (lo + hi) \div 2
             entry == entries[mid + 1]
         IN  IF RLe(entry.start, time) /\ RLe(time, entry.end) THEN mid
             ELSE IF RLt(time, entry.start)
                  THEN FindLoopReturnsHi(entries, time, lo, mid - 1)
                  ELSE FindLoopReturnsHi(entries, time, mid + 1, hi)

\* the binary search of findWordIndexByTime over entries (a sequence)
RECURSIVE FindLoop(_, _, _, _)
FindLoop(entries, time, lo, hi) ==
    IF lo > hi THEN Max(0, Min(Len(entries) - 1, lo))
    ELSE LET mid == (lo + hi) \div 2
             entry == entries[mid + 1]
         IN  IF RLe(entry.start, time) /\ RLe(time, entry.end) THEN mid
             ELSE IF RLt(time, entry.start)
                  THEN FindLoop(entries, time, lo, mid - 1)
                  ELSE FindLoop(entries, time, mid + 1, hi)

\* findWordIndexByTime(entries, time); the result is a 0-based index
findWordIndexByTime(entries, time) ==
    IF entries = <<>> THEN 0
    ELSE LET hi == Len(entries) - 1
         IN  IF RLe(time, entries[1].start) THEN 0
             ELSE IF RLe(entries[hi + 1].end, time) THEN hi
             ELSE FindLoop(entries, time, 0, hi)

\* ---- buildTimingMap: aligning the transcript with the words ----

\* texts are sequences of characters ("apos" is the ASCII apostrophe,
\* "rsquo" the typographic one); toLowerCase and the apostrophe replacement
\* of normalizeWord
LowerChar(c) ==
    CASE c = "A" -> "a"
      [] c = "B" -> "b"
      [] c = "rsquo" -> "apos"
      [] OTHER -> c

\* \p{L}, \p{N} and the apostrophe: the characters the trim keeps
IsWordChar(c) == c \in {"a", "b", "c", "d", "x", "apos"}

RECURSIVE TrimLeft(_)
TrimLeft(text) ==
    IF text = <<>> \/ IsWordChar(Head(text)) THEN text ELSE TrimLeft(Tail(text))

RECURSIVE TrimRight(_)
TrimRight(text) ==
    IF text = <<>> \/ IsWordChar(text[Len(text)]) THEN text
    ELSE TrimRight(SubSeq(text, 1, Len(text) - 1))

normalizeWord(text) ==
    TrimRight(TrimLeft([k \in 1..Len(text) |-> LowerChar(text[k])]))

LOOKAHEAD == 3

\* skipEmptyStt / skipEmptyWord over 0-based positions
RECURSIVE skipEmptyStt(_, _)
skipEmptyStt(normalizedStt, idx) ==
    IF idx < Len(normalizedStt) /\ normalizedStt[idx + 1].text = <<>>
    THEN skipEmptyStt(normalizedStt, idx + 1) ELSE idx

RECURSIVE skipEmptyWord(_, _)
skipEmptyWord(normalizedWords, idx) ==
    IF idx < Len(normalizedWords) /\ normalizedWords[idx + 1] = <<>>
    THEN skipEmptyWord(normalizedWords, idx + 1) ELSE idx

SetMin(S) == CHOOSE x \in S : \A y \in S : x <= y

\* mutant: the unmatched pair is emitted without moving on to the next word
RECURSIVE AlignLoopKeepsWord(_, _, _, _, _)
AlignLoopKeepsWord(normalizedWords, normalizedStt, i, j, map) ==
    IF ~(i < Len(normalizedStt) /\ j < Len(normalizedWords)) THEN map
    ELSE
      LET w == normalizedStt[i + 1]
          s == normalizedWords[j + 1]
          sttAhead == {wi \in 1..LOOKAHEAD :
                          /\ i + wi < Len(normalizedStt)
                          /\ normalizedStt[i + wi + 1].text # <<>>
                          /\ normalizedStt[i + wi + 1].text = s}
          wordAhead == {sj \in 1..LOOKAHEAD :
                          /\ j + sj < Len(normalizedWords)
                          /\ normalizedWords[j + sj + 1] # <<>>
                          /\ normalizedWords[j + sj + 1] = w.text}
      IN  IF s = <<>>
          THEN AlignLoopKeepsWord(normalizedWords, normalizedStt, i,
                                  skipEmptyWord(normalizedWords, j + 1), map)
          ELSE IF w.text = <<>>
          THEN AlignLoopKeepsWord(normalizedWords, normalizedStt,
                                  skipEmptyStt(normalizedStt, i + 1), j, map)
          ELSE IF w.text = s
          THEN AlignLoopKeepsWord(normalizedWords, normalizedStt,
                                  skipEmptyStt(normalizedStt, i + 1),
                                  skipEmptyWord(normalizedWords, j + 1),
                                  Append(map, TEntry(j, w.start, w.end)))
          ELSE IF sttAhead # {}
          THEN AlignLoopKeepsWord(normalizedWords, normalizedStt,
                                  skipEmptyStt(normalizedStt, i + SetMin(sttAhead)), j, map)
          ELSE IF wordAhead # {}
          THEN AlignLoopKeepsWord(normalizedWords, normalizedStt, i,
                                  skipEmptyWord(normalizedWords, j + SetMin(wordAhead)), map)
          ELSE AlignLoopKeepsWord(normalizedWords, normalizedStt,
                                  skipEmptyStt(normalizedStt, i + 1), j,
                                  Append(map, TEntry(j, w.start, w.end)))

\* the while loop of buildTimingMap; i and j are 0-based cursors
\* the loop without look-ahead: the k-th word takes the k-th transcript word
AlignLoopPositional(normalizedWords, normalizedStt, i, j, map) ==
    [k \in 1..Min(Len(normalizedWords), Len(normalizedStt)) |->
        TEntry(k - 1, normalizedStt[k].start, normalizedStt[k].end)]

RECURSIVE AlignLoop(_, _, _, _, _)
AlignLoop(normalizedWords, normalizedStt, i, j, map) ==
    IF ~(i < Len(normalizedStt) /\ j < Len(normalizedWords)) THEN map
    ELSE
      LET w == normalizedStt[i + 1]
          s == normalizedWords[j + 1]
          sttAhead == {wi \in 1..LOOKAHEAD :
                          /\ i + wi < Len(normalizedStt)
                          /\ normalizedStt[i + wi + 1].text # <<>>
                          /\ normalizedStt[i + wi + 1].text = s}
          wordAhead == {sj \in 1..LOOKAHEAD :
                          /\ j + sj < Len(normalizedWords)
                          /\ normalizedWords[j + sj + 1] # <<>>
                          /\ normalizedWords[j + sj + 1] = w.text}
      IN  IF s = <<>>
          THEN AlignLoop(normalizedWords, normalizedStt, i,
                         skipEmptyWord(normalizedWords, j + 1), map)
          ELSE IF w.text = <<>>
          THEN AlignLoop(normalizedWords, normalizedStt,
                         skipEmptyStt(normalizedStt, i + 1), j, map)
          ELSE IF w.text = s
          THEN AlignLoop(normalizedWords, normalizedStt,
                         skipEmptyStt(normalizedStt, i + 1),
                         skipEmptyWord(normalizedWords, j + 1),
                         Append(map, TEntry(j, w.start, w.end)))
          ELSE IF sttAhead # {}
          THEN AlignLoop(normalizedWords, normalizedStt,
                         skipEmptyStt(normalizedStt, i + SetMin(sttAhead)), j, map)
          ELSE IF wordAhead # {}
          THEN AlignLoop(normalizedWords, normalizedStt, i,
                         skipEmptyWord(normalizedWords, j + SetMin(wordAhead)), map)
          ELSE AlignLoop(normalizedWords, normalizedStt,
                         skipEmptyStt(normalizedStt, i + 1),
                         skipEmptyWord(normalizedWords, j + 1),
                         Append(map, TEntry(j, w.start, w.end)))

\* one iteration in which the transcript look-ahead finds the word and the
\* cursor is left where it was
AlignStepStaysOnExtra(normalizedWords, normalizedStt, i, j, map) ==
    LET w == normalizedStt[i + 1]
        s == normalizedWords[j + 1]
        sttAhead == {wi \in 1..LOOKAHEAD :
                        /\ i + wi < Len(normalizedStt)
                        /\ normalizedStt[i + wi + 1].text # <<>>
                        /\ normalizedStt[i + wi + 1].text = s}
        wordAhead == {sj \in 1..LOOKAHEAD :
                        /\ j + sj < Len(normalizedWords)
                        /\ normalizedWords[j + sj + 1] # <<>>
                        /\ normalizedWords[j + sj + 1] = w.text}
    IN  IF s = <<>>
        THEN [i |-> i, j |-> skipEmptyWord(normalizedWords, j + 1), map |-> map]
        ELSE IF w.text = <<>>
        THEN [i |-> skipEmptyStt(normalizedStt, i + 1), j |-> j, map |-> map]
        ELSE IF w.text = s
        THEN [i |-> skipEmptyStt(normalizedStt, i + 1),
              j |-> skipEmptyWord(normalizedWords, j + 1),
              map |-> Append(map, TEntry(j, w.start, w.end))]
        ELSE IF sttAhead # {}
        THEN [i |-> skipEmptyStt(normalizedStt, i), j |-> j, map |-> map]
        ELSE IF wordAhead # {}
        THEN [i |-> i, j |-> skipEmptyWord(normalizedWords, j + SetMin(wordAhead)),
              map |-> map]
        ELSE [i |-> skipEmptyStt(normalizedStt, i + 1),
              j |-> skipEmptyWord(normalizedWords, j + 1),
              map |-> Append(map, TEntry(j, w.start, w.end))]

\* one iteration of the while loop of buildTimingMap: the cursors and the
\* map after it
AlignStep(normalizedWords, normalizedStt, i, j, map) ==
    LET w == normalizedStt[i + 1]
        s == normalizedWords[j + 1]
        sttAhead == {wi \in 1..LOOKAHEAD :
                        /\ i + wi < Len(normalizedStt)
                        /\ normalizedStt[i + wi + 1].text # <<>>
                        /\ normalizedStt[i + wi + 1].text = s}
        wordAhead == {sj \in 1..LOOKAHEAD :
                        /\ j + sj < Len(normalizedWords)
                        /\ normalizedWords[j + sj + 1] # <<>>
                        /\ normalizedWords[j + sj + 1] = w.text}
    IN  IF s = <<>>
        THEN [i |-> i, j |-> skipEmptyWord(normalizedWords, j + 1), map |-> map]
        ELSE IF w.text = <<>>
        THEN [i |-> skipEmptyStt(normalizedStt, i + 1), j |-> j, map |-> map]
        ELSE IF w.text = s
        THEN [i |-> skipEmptyStt(normalizedStt, i + 1),
              j |-> skipEmptyWord(normalizedWords, j + 1),
              map |-> Append(map, TEntry(j, w.start, w.end))]
        ELSE IF sttAhead # {}
        THEN [i |-> skipEmptyStt(normalizedStt, i + SetMin(sttAhead)), j |-> j, map |-> map]
        ELSE IF wordAhead # {}
        THEN [i |-> i, j |-> skipEmptyWord(normalizedWords, j + SetMin(wordAhead)),
              map |-> map]
        ELSE [i |-> skipEmptyStt(normalizedStt, i + 1),
              j |-> skipEmptyWord(normalizedWords, j + 1),
              map |-> Append(map, TEntry(j, w.start, w.end))]

\* the k-th word paired with the k-th transcript word
buildTimingMapPositional(words, sttWords) ==
    [k \in 1..Min(Len(words), Len(sttWords)) |->
        TEntry(k - 1, sttWords[k].start, sttWords[k].end)]

\* buildTimingMap(words, sttWords): words are the word texts, sttWords the
\* transcript records [word, start, end]
buildTimingMap(words, sttWords) ==
    IF sttWords = <<>> THEN <<>>
    ELSE LET normalizedWords == [k \in 1..Len(words) |-> normalizeWord(words[k])]
             normalizedStt == [k \in 1..Len(sttWords) |->
                                 [text |-> normalizeWord(sttWords[k].word),
                                  start |-> sttWords[k].start,
                                  end |-> sttWords[k].end]]
         IN  AlignLoop(normalizedWords, normalizedStt,
                       skipEmptyStt(normalizedStt, 0),
                       skipEmptyWord(normalizedWords, 0), <<>>)

MaxStt == 4         \* longest transcript given to buildTimingMap
\* page words and transcript words: matching after normalisation ("B" and
\* "b."), differing, and empty after normalisation ("-", "")
WordTexts == {<<"a">>, <<"B">>, <<"-">>}
SttTexts == {<<"a">>, <<"b", ".">>, <<>>}
\* a transcript whose k-th word (0-based) is timed [2k, 2k + 1]
SttWords(texts) ==
    [k \in 1..Len(texts) |->
        [word |-> texts[k], start |-> RInt(2 * (k - 1)), end |-> RInt(2 * k - 1)]]
AlignInputs(maxWords, maxStt) ==
    {[words |-> ws, stt |-> SttWords(ts)] :
        ws \in (SeqsUpTo(WordTexts, maxWords) \ {<<>>}), ts \in SeqsUpTo(SttTexts, maxStt)}

\* what the transcription returns for a page word it heard
Heard(text) ==
    CASE text = <<"B">> -> <<"b", ".">>
      [] text = <<"-">> -> <<>>
      [] OTHER -> text

\* transcripts that repeat the page words with a run of extra words at one
\* position: words the page does not have ("x") and empty ones
MaxInserted == 4
ExtraTexts == {<<"x">>, <<>>}
InsertionInputs(maxWords, maxInserted) ==
    UNION {{[words |-> ws,
             stt |-> SttWords([k \in 1..p |-> Heard(ws[k])] \o xs
                              \o [k \in 1..(Len(ws) - p) |-> Heard(ws[p + k])])] :
               p \in 0..Len(ws), xs \in SeqsUpTo(ExtraTexts, maxInserted)} :
           ws \in (SeqsUpTo(WordTexts, maxWords) \ {<<>>})}

\* page words that differ pairwise, and transcripts that repeat them with
\* a run of words left out at one position
MaxDistinct == 5
MaxMissing == 4
DistinctTexts == {<<"a">>, <<"B">>, <<"c">>, <<"d">>, <<"-">>}
DistinctWords(maxDistinct) ==
    {ws \in (SeqsUpTo(DistinctTexts, maxDistinct) \ {<<>>}) :
        \A k, l \in 1..Len(ws) : k # l => ws[k] # ws[l]}
DeletionInputs(maxDistinct, maxMissing) ==
    UNION {{[words |-> ws,
             stt |-> SttWords([k \in 1..cut[1] |-> Heard(ws[k])]
                              \o [k \in 1..(Len(ws) - cut[1] - cut[2]) |->
                                     Heard(ws[cut[1] + cut[2] + k])])] :
               cut \in {c \in (0..Len(ws)) \X (0..maxMissing) : c[1] + c[2] <= Len(ws)}} :
           ws \in DistinctWords(maxDistinct)}

TimeGrid == {<<0, 1>>, <<1, 2>>, <<1, 1>>, <<2, 1>>}
\* playback times at which the highlight loop looks up the word
TimeProbes == {<<0, 1>>, <<1, 4>>, <<1, 2>>, <<3, 4>>, <<1, 1>>, <<3, 2>>, <<2, 1>>, <<5, 2>>, <<3, 1>>}
DurationGrid == {RZero, <<1, 1>>, <<5, 2>>}
SparseLengths == {0, 1, 2}

SparseEntries(n) == {TEntry(i, s, e) : i \in 0..(n - 1), s \in TimeGrid, e \in TimeGrid}

SparseMaps(n) ==
    {<<>>} \cup (IF 1 \in SparseLengths THEN {<<e>> : e \in SparseEntries(n)} ELSE {})
           \cup (IF 2 \in SparseLengths
                 THEN {<<e, f>> : e \in SparseEntries(n), f \in SparseEntries(n)} ELSE {})

-----------------------------------------------------------------------------
(* The document and the settings the session machine runs on.  The DOM is  *)
(* outside the engine: the document is a fixed reading flow of regions,    *)
(* each with its visible words (region 2 has text but no readable word).   *)

Doc ==
    << << <<"a", "a", "a">>, <<"a">>, <<"a", "a", "a">> >>,
       << >>,
       << <<"a">>, <<"a", "a", "a">> >> >>

Regions == 1..Len(Doc)
ReadableRegions == {r \in Regions : Doc[r] # <<>>}

cachedSettings == [max_chars |-> 5]

NoWord == <<>>
NullIndex == -1     \* a null word index (currentWordIndex: null)

\* a word slice: `len` words of `region` starting at word `off` (0-based).
\* Word objects are made by mapWords, once per session and region; `map`
\* is the session whose mapWords call made them (0: not yet attributed).
Slice(region, off, len) == [region |-> region, off |-> off, len |-> len, map |-> 0]

MappedBy(slice, id) == [slice EXCEPT !.map = id]

\* buildChunkMap over the words of a region chunked with maxChars; indices
\* are 0-based as in the code
buildChunkMap(region, chunks) ==
    LET n == Len(Doc[region])
        chunkOf(w) == CHOOSE k \in 1..Len(chunks) :
                          /\ ChunkOffset(chunks, k) <= w
                          /\ w < ChunkOffset(chunks, k) + chunks[k].count
    IN  [ chunkTexts |-> [i \in 0..(Len(chunks) - 1) |-> chunks[i + 1].text],
          chunkWords |-> [i \in 0..(Len(chunks) - 1) |->
                             Slice(region, ChunkOffset(chunks, i + 1), chunks[i + 1].count)],
          wordToChunkIndex |-> [w \in 0..(n - 1) |-> chunkOf(w) - 1],
          wordToChunkOffset |-> [w \in 0..(n - 1) |-> w - ChunkOffset(chunks, chunkOf(w))] ]

\* the state ensureElementState builds for a region: its words and the
\* chunk map derived from them
buildElementState(region, maxChars) ==
    LET map == buildChunkMap(region, chunkTokens(Doc[region], maxChars))
    IN  [ words |-> Slice(region, 0, Len(Doc[region])),
          nwords |-> Len(Doc[region]),
          nchunks |-> Len(chunkTokens(Doc[region], maxChars)),
          chunkTexts |-> map.chunkTexts,
          chunkWords |-> map.chunkWords,
          wordToChunkIndex |-> map.wordToChunkIndex,
          wordToChunkOffset |-> map.wordToChunkOffset ]

\* roam.elements: the element states by region, as built with the
\* configured max_chars (the document and the setting do not change)
roamElements == [region \in Regions |-> buildElementState(region, cachedSettings.max_chars)]

\* ensureElementState(element, maxChars)
ensureElementState(region, maxChars) ==
    IF maxChars = cachedSettings.max_chars THEN roamElements[region]
    ELSE buildElementState(region, maxChars)

\* findReadableElement(current, forward): the neighbour in the reading
\* flow, or 0 (null) past either end
\* the neighbour search ignoring the direction asked for
findReadableElementForwardOnly(current, forward) ==
    IF current + 1 \in Regions THEN current + 1 ELSE 0

findReadableElement(current, forward) ==
    LET next == IF forward THEN current + 1 ELSE current - 1
    IN  IF next \in Regions THEN next ELSE 0

-----------------------------------------------------------------------------
(* Session objects *)

NoSession == [none |-> TRUE]
NoPort == [live |-> FALSE]
NoAudio ==
    [el |-> "none", slice |-> Null, awaiter |-> 0, gesture |-> FALSE, pos |-> 0,
     resumeListeners |-> FALSE,   \* the closure's resumeListeners is not null
     regs |-> 0]                  \* times this playback registered resume listeners

\* createSession(paragraph, words); id names the speakParagraph call that
\* made the object (it owns the object's _resolve)
createSession(id, paragraph) ==
    [ id |-> id,
      paragraph |-> paragraph,
      cancelled |-> FALSE,
      done |-> FALSE,
      port |-> FALSE,
      ignorePortDisconnect |-> FALSE,
      audio |-> NoAudio,
      highlight |-> [activeWords |-> Null, currentWordIndex |-> NullIndex, running |-> FALSE],
      chunks |-> [chunkResults |-> {}, chunkIndex |-> 0,
                  pendingHighlightIndex |-> NullIndex, pendingStartIndex |-> NullIndex,
                  byKey |-> {}],
      roam |-> [active |-> FALSE, currentElement |-> paragraph,
                currentWordIndex |-> NullIndex, debounceTimer |-> 0, debounceToken |-> 0] ]

\* the closure of one speakParagraph call
NewRead(region, maxChars) ==
    [ region |-> region,
      chunkWords |-> ensureElementState(region, maxChars).chunkWords,
      nchunks |-> ensureElementState(region, maxChars).nchunks,
      chunkTexts |-> ensureElementState(region, maxChars).chunkTexts,
      allDelivered |-> FALSE,
      playing |-> FALSE,
      resolved |-> FALSE,     \* the allPlayed promise has been resolved
      toasts |-> <<>>,        \* failure toasts shown by this read's stream handlers
      begun |-> <<>> ]        \* chunk indices whose linear playback began in this read's session

InitObs ==
    [ steps |-> 0,            \* directional key presses so far
      roamToasts |-> <<>>,    \* failure toasts shown by roam stream handlers
      burst |-> 0,            \* consecutive landed steps with no debounce expiry in between
      proceeded |-> 0,        \* debounce expiries that proceeded since the last landed step
      reqs |-> 0,             \* roam synthesis requests since the last landed step
      lastReq |-> Null,       \* [region, chunk] of the last roam request
      landed |-> NoWord,      \* the word the latest step landed on (NoWord: it did not land)
      liveAudio |-> 0,        \* audio elements created and not yet disposed
      pendingPlay |-> 0,      \* playChunk promises created and not yet resolved
      docListeners |-> 0 ]    \* sets of resume listeners registered on the document

\* the whole machine as one value, so that handlers compose
Machine ==
    [ session |-> session, reads |-> reads, port |-> port, timers |-> timers,
      micro |-> micro, display |-> display, ticks |-> ticks, obs |-> obs ]

Becomes(s) ==
    /\ session' = s.session
    /\ reads' = s.reads
    /\ port' = s.port
    /\ timers' = s.timers
    /\ micro' = s.micro
    /\ display' = s.display
    /\ ticks' = s.ticks
    /\ obs' = s.obs
    /\ UNCHANGED <<ck, tm, cfg, bg, rt, ls>>

IdleMachine ==
    /\ session = NoSession
    /\ reads = <<>>
    /\ port = NoPort
    /\ timers = {}
    /\ micro = <<>>
    /\ display = NoWord
    /\ ticks = [live |-> FALSE, dead |-> 0]
    /\ obs = InitObs

IdleNorm == tm = [pc |-> "idle"]
IdleChunk == ck = [pc |-> "idle"]
IdleSettings == cfg = [pc |-> "idle"]
IdleStream == bg = [pc |-> "idle"]
IdleRetry == rt = [pc |-> "idle"]
IdleLocal == ls = [pc |-> "idle"]

HasSession(s) == s.session # NoSession

TryCont(r) == [k |-> "tryPlayNextChunk", read |-> r]
ReadCont(r) == [k |-> "speakParagraph", read |-> r]

-----------------------------------------------------------------------------
(* Audio and port primitives *)

\* the playChunk promise of the current audio is still pending
PlaybackPending(a) == a.el \in {"loading", "starting", "playing", "blocked"}

\* cleanup() of the playChunk closure: pause the audio and resolve the
\* promise; the awaiting tryPlayNextChunk (if any) resumes in a microtask
cleanup(s) ==
    IF ~PlaybackPending(s.session.audio) THEN s
    ELSE [s EXCEPT
            !.session.audio.el = "ended",
            !.obs.pendingPlay = @ - 1,
            !.session.audio.resumeListeners = FALSE,
            !.obs.docListeners = IF s.session.audio.resumeListeners THEN @ - 1 ELSE @,
            !.micro = IF s.session.audio.awaiter # 0
                      THEN Append(@, TryCont(s.session.audio.awaiter)) ELSE @,
            !.ticks = IF @.live THEN [live |-> FALSE, dead |-> @.dead + 1] ELSE @]

\* mutant: disposeAudio runs the cleanup but leaves the element attached
disposeAudioKeepsElement(s) ==
    IF ~HasSession(s) THEN s ELSE cleanup(s)

disposeAudio(s) ==
    IF ~HasSession(s) THEN s
    ELSE LET c == cleanup(s)
         IN  [c EXCEPT
                !.session.audio = NoAudio,
                !.obs.liveAudio = IF c.session.audio.el # "none" THEN @ - 1 ELSE @]

\* disconnectPort({ silent }): a port disconnected from this end delivers
\* no further event to this end (chrome.runtime.Port contract)
disconnectPort(s, silent) ==
    IF ~HasSession(s) \/ ~s.session.port THEN s
    ELSE [s EXCEPT
            !.session.ignorePortDisconnect = IF silent THEN TRUE ELSE @,
            !.session.port = FALSE,
            !.port = NoPort]

clearDebounceTimer(s) ==
    IF s.session.roam.debounceTimer # 0
    THEN [s EXCEPT !.timers = @ \ {<<s.session.id, s.session.roam.debounceTimer>>},
                   !.session.roam.debounceTimer = 0]
    ELSE s

-----------------------------------------------------------------------------
(* Handlers, as functions from machine to machine *)

\* session._resolve(): resolves the allPlayed promise of the call that made
\* the session object; its speakParagraph resumes in a microtask, once
resolveAllPlayed(s) ==
    IF ~HasSession(s) \/ s.reads[s.session.id].resolved THEN s
    ELSE [s EXCEPT !.reads[s.session.id].resolved = TRUE,
                   !.micro = Append(@, ReadCont(s.session.id))]

\* mutant: stopSession leaves the pending debounce timer armed
stopSessionKeepsTimer(s, reason) ==
    IF ~HasSession(s) THEN s
    ELSE
      LET s1 == [s EXCEPT !.session.cancelled = TRUE, !.session.roam.active = FALSE]
          s3 == disposeAudio(s1)
          s4 == [s3 EXCEPT !.session.highlight.running = FALSE]
          s5 == disconnectPort(s4, FALSE)
      IN  IF reason = "done"
          THEN [s5 EXCEPT !.session.done = TRUE]
          ELSE [s5 EXCEPT !.display = NoWord, !.session = NoSession]

\* stopSession(reason)
stopSession(s, reason) ==
    IF ~HasSession(s) THEN s
    ELSE
      LET s1 == [s EXCEPT !.session.cancelled = TRUE]
          s2 == [clearDebounceTimer(s1) EXCEPT !.session.roam.active = FALSE]
          s3 == disposeAudio(s2)
          s4 == [s3 EXCEPT !.session.highlight.running = FALSE]
          s5 == disconnectPort(s4, FALSE)
      IN  IF reason = "done"
          THEN [s5 EXCEPT !.session.done = TRUE]
          ELSE [s5 EXCEPT !.display = NoWord, !.session = NoSession]

\* startChunkStream(chunkTexts, handlers): connect a port and post "start";
\* `owner` is what the handlers close over
startChunkStream(s, nchunks, owner) ==
    IF ~HasSession(s) \/ nchunks = 0 THEN s
    ELSE [s EXCEPT
            !.session.port = TRUE,
            !.port = [live |-> TRUE, owner |-> owner, nchunks |-> nchunks,
                      delivered |-> {}, term |-> "open"]]

\* playChunk(result, words) up to the point where it waits for the audio's
\* metadata; a call that returns at once leaves a resolved promise
playChunk(s, slice, awaiter) ==
    IF slice.len = 0 \/ ~HasSession(s) \/ s.session.cancelled
    THEN [s EXCEPT !.micro = IF awaiter # 0 THEN Append(@, TryCont(awaiter)) ELSE @]
    ELSE
      \* a linear read plays the words its own speakParagraph call mapped
      LET words == MappedBy(slice, IF awaiter # 0 THEN awaiter ELSE s.session.id)
      IN  [s EXCEPT
             !.session.audio = [el |-> "loading", slice |-> words, awaiter |-> awaiter,
                                gesture |-> FALSE, pos |-> 0,
                                resumeListeners |-> FALSE, regs |-> 0],
             !.obs.liveAudio = IF s.session.audio.el = "none" THEN @ + 1 ELSE @,
             !.obs.pendingPlay = @ + 1,
             \* updatePlaybackMaps(timingMap, words)
             !.session.highlight.activeWords = words,
             !.session.highlight.currentWordIndex = NullIndex]

\* startChunkPlayback(result, wordSlice, startIndex); slice = Null stands
\* for an undefined word slice
startChunkPlayback(s, slice, startIndex, awaiter) ==
    IF ~HasSession(s) \/ slice = Null \/ slice.len = 0
    THEN [s EXCEPT !.micro = IF awaiter # 0 THEN Append(@, TryCont(awaiter)) ELSE @]
    ELSE
      LET safeIndex == Max(0, Min(slice.len - 1, startIndex))
          s1 == [s EXCEPT !.session.chunks.pendingHighlightIndex = safeIndex,
                          !.session.chunks.pendingStartIndex = safeIndex,
                          !.session.done = FALSE]
      IN  playChunk(disposeAudio(s1), slice, awaiter)

\* tryPlayNextChunk() of read r, up to its await
tryPlayNextChunk(s, r) ==
    IF \/ s.reads[r].playing
       \/ ~HasSession(s)
       \/ s.session.cancelled
       \/ s.session.roam.active
    THEN s
    ELSE
      LET idx == s.session.chunks.chunkIndex
      IN  IF idx \notin s.session.chunks.chunkResults THEN s
          ELSE
            LET wordSlice == IF idx < s.reads[r].nchunks
                             THEN s.reads[r].chunkWords[idx] ELSE Null
                s1 == [s EXCEPT !.reads[r].playing = TRUE,
                                !.reads[s.session.id].begun =
                                    IF wordSlice # Null THEN Append(@, idx) ELSE @]
            IN  startChunkPlayback(s1, wordSlice, 0, r)

\* the part of tryPlayNextChunk after `await startChunkPlayback(...)`
tryPlayNextChunkResume(s, r) ==
    LET s1 == [s EXCEPT !.reads[r].playing = FALSE]
    IN  IF ~HasSession(s1) \/ s1.session.cancelled \/ s1.session.roam.active
        THEN resolveAllPlayed(s1)
        ELSE
          LET s2 == [s1 EXCEPT !.session.chunks.chunkIndex = @ + 1]
          IN  IF s2.session.chunks.chunkIndex >= s2.reads[r].nchunks
              THEN resolveAllPlayed(s2)
              ELSE tryPlayNextChunk(s2, r)

\* the part of speakParagraph after `await allPlayed`
\* speakParagraph's tail stopping with the reason of an explicit stop
speakParagraphResumeAsCancel(s) ==
    IF HasSession(s) /\ s.session.roam.active THEN s
    ELSE stopSession(s, "cancelled")

\* speakParagraph's tail without the test of roam.active
speakParagraphResumeIgnoresRoam(s) == stopSession(s, "done")

speakParagraphResume(s) ==
    IF HasSession(s) /\ s.session.roam.active THEN s
    ELSE stopSession(s, "done")

\* setHighlightByIndex(wordIndex, words)
setHighlightByIndex(s, wordIndex, words) ==
    IF words = Null \/ wordIndex < 0 \/ wordIndex >= words.len THEN s
    ELSE
      LET word == <<words.region, words.off + wordIndex>>
          s1 == [s EXCEPT !.display = word]
      IN  IF ~HasSession(s1) THEN s1
          ELSE [s1 EXCEPT
                  !.session.highlight.currentWordIndex = wordIndex,
                  !.session.roam.currentWordIndex =
                      IF /\ s.session.roam.active
                         /\ s.session.roam.currentElement = word[1]
                         /\ words.map = s.session.id
                      THEN word[2] ELSE @]

-----------------------------------------------------------------------------
(* Roam navigation *)

enterRoamMode(s) ==
    IF ~HasSession(s) THEN s
    ELSE [s EXCEPT !.session.roam.active = TRUE,
                   !.session.cancelled = FALSE,
                   !.session.done = FALSE]

\* mutant: abortRoamPlayback restarts the debounce token at 0
abortRoamPlaybackResetsToken(s) ==
    IF ~HasSession(s) THEN s
    ELSE
      LET s1 == clearDebounceTimer(s)
          s2 == [s1 EXCEPT !.session.roam.debounceToken = 0,
                           !.session.chunks.pendingHighlightIndex = NullIndex,
                           !.session.chunks.pendingStartIndex = NullIndex]
          s3 == disposeAudio(s2)
          s4 == [s3 EXCEPT !.session.highlight.running = FALSE]
      IN  disconnectPort(s4, TRUE)

\* mutant: abortRoamPlayback also clears the displayed highlight
abortRoamPlaybackClearsHighlight(s) ==
    IF ~HasSession(s) THEN s
    ELSE
      LET s1 == clearDebounceTimer(s)
          s2 == [s1 EXCEPT !.session.roam.debounceToken = @ + 1,
                           !.session.chunks.pendingHighlightIndex = NullIndex,
                           !.session.chunks.pendingStartIndex = NullIndex,
                           !.display = NoWord]
          s3 == disposeAudio(s2)
          s4 == [s3 EXCEPT !.session.highlight.running = FALSE]
      IN  disconnectPort(s4, TRUE)

abortRoamPlayback(s) ==
    IF ~HasSession(s) THEN s
    ELSE
      LET s1 == clearDebounceTimer(s)
          s2 == [s1 EXCEPT !.session.roam.debounceToken = @ + 1,
                           !.session.chunks.pendingHighlightIndex = NullIndex,
                           !.session.chunks.pendingStartIndex = NullIndex]
          s3 == disposeAudio(s2)
          s4 == [s3 EXCEPT !.session.highlight.running = FALSE]
      IN  disconnectPort(s4, TRUE)

\* scheduleRoamPlayback(): arm the 300 ms timer with a fresh token
scheduleRoamPlayback(s) ==
    IF ~HasSession(s) THEN s
    ELSE
      LET s1 == clearDebounceTimer(s)
          token == s1.session.roam.debounceToken + 1
      IN  [s1 EXCEPT !.session.roam.debounceToken = token,
                     !.session.roam.debounceTimer = token,
                     !.timers = @ \cup {<<s1.session.id, token>>}]

\* the `while (true)` loop of handleRoamNavigation: where the step lands,
\* [element, index], or Null when no readable region is left
RECURSIVE RoamTarget(_, _, _, _, _)
RoamTarget(element, nwords, index, direction, maxChars) ==
    LET nextIndex == index + direction
    IN  IF nextIndex >= 0 /\ nextIndex < nwords
        THEN [element |-> element, index |-> nextIndex]
        ELSE
          LET nextElement == findReadableElement(element, direction > 0)
          IN  IF nextElement = 0 THEN Null
              ELSE LET n == ensureElementState(nextElement, maxChars).nwords
                   IN  IF n = 0
                       THEN RoamTarget(nextElement, n, index, direction, maxChars)
                       ELSE [element |-> nextElement,
                             index |-> IF direction > 0 THEN 0 ELSE n - 1]

\* the element-relative index handleRoamNavigation starts from
RoamStartIndex(s, element) ==
    IF s.session.roam.currentWordIndex # NullIndex THEN s.session.roam.currentWordIndex
    ELSE
      LET activeWords == s.session.highlight.activeWords
          hlIdx == s.session.highlight.currentWordIndex
      IN  IF /\ activeWords # Null
             /\ hlIdx # NullIndex /\ hlIdx >= 0 /\ hlIdx < activeWords.len
             /\ activeWords.region = element /\ activeWords.map = s.session.id
          THEN activeWords.off + hlIdx
          ELSE 0

handleRoamNavigation(s, direction) ==
    IF ~HasSession(s) THEN s
    ELSE
      LET s1 == abortRoamPlayback(enterRoamMode(s))
          maxChars == cachedSettings.max_chars
          element == s1.session.roam.currentElement
          state == ensureElementState(element, maxChars)
      IN  IF state.nwords = 0 THEN s1
          ELSE
            LET target == RoamTarget(element, state.nwords, RoamStartIndex(s1, element),
                                     direction, maxChars)
            IN  IF target = Null
                THEN [s1 EXCEPT !.obs.burst = 0, !.obs.landed = NoWord]
                ELSE
                  LET s2 == [s1 EXCEPT
                               !.session.paragraph = target.element,
                               !.session.roam.currentElement = target.element,
                               !.session.roam.currentWordIndex = target.index,
                               !.obs.burst = IF s1.obs.proceeded >= 1 THEN 1 ELSE @ + 1,
                               !.obs.proceeded = 0,
                               !.obs.reqs = 0,
                               !.obs.landed = <<target.element, target.index>>]
                      s3 == setHighlightByIndex(s2, target.index,
                                MappedBy(ensureElementState(target.element, maxChars).words,
                                         s2.session.id))
                  IN  scheduleRoamPlayback(s3)

\* requestChunkPlayback(chunkText, wordSlice, startIndex, token, element)
requestChunkPlayback(s, chunkText, wordSlice, startIndex, token, element, chunkIndex) ==
    LET s1 == disconnectPort(s, TRUE)
        s2 == startChunkStream(s1, 1,
                  [kind |-> "roam", token |-> token, chunkText |-> chunkText,
                   slice |-> wordSlice, startIndex |-> startIndex])
    IN  [s2 EXCEPT !.obs.reqs = @ + 1,
                   !.obs.lastReq = [region |-> element, chunk |-> chunkIndex]]

\* mutant: startRoamPlayback always asks for the region's first chunk
startRoamPlaybackFirstChunk(s, token) ==
    IF ~HasSession(s) \/ s.session.cancelled \/ ~s.session.roam.active THEN s
    ELSE IF s.session.roam.debounceToken # token THEN s
    ELSE
      LET element == s.session.roam.currentElement
          state == ensureElementState(element, cachedSettings.max_chars)
          s1 == [s EXCEPT !.obs.proceeded = @ + 1]
      IN  IF state.chunkTexts[0] \in s1.session.chunks.byKey
          THEN startChunkPlayback(s1, state.chunkWords[0], 0, 0)
          ELSE requestChunkPlayback(s1, state.chunkTexts[0], state.chunkWords[0], 0,
                                    token, element, 0)

\* startRoamPlayback(token).  `await getLocalSettings()` resolves from
\* cachedSettings in a microtask of the same task (settings are loaded
\* before any session exists), so both halves run in one step.
startRoamPlayback(s, token) ==
    IF ~HasSession(s) \/ s.session.cancelled \/ ~s.session.roam.active THEN s
    ELSE IF s.session.roam.debounceToken # token THEN s
    ELSE
      LET element == s.session.roam.currentElement
          state == ensureElementState(element, cachedSettings.max_chars)
      IN  IF state.nwords = 0 THEN s
          ELSE
            LET s1 == [s EXCEPT
                         !.session.roam.currentWordIndex =
                             IF @ = NullIndex THEN 0 ELSE @,
                         !.obs.proceeded = @ + 1]
                wordIndex == s1.session.roam.currentWordIndex
                chunkIndex == state.wordToChunkIndex[wordIndex]
                chunkText == state.chunkTexts[chunkIndex]
                wordSlice == state.chunkWords[chunkIndex]
                startIndex == state.wordToChunkOffset[wordIndex]
            IN  IF chunkText \in s1.session.chunks.byKey
                THEN startChunkPlayback(s1, wordSlice, startIndex, 0)
                ELSE requestChunkPlayback(s1, chunkText, wordSlice, startIndex,
                                          token, element, chunkIndex)

\* the setTimeout callback armed by scheduleRoamPlayback with `token`
debounceExpiry(s, token) ==
    IF ~HasSession(s) \/ s.session.roam.debounceToken # token THEN s
    ELSE startRoamPlayback(s, token)

-----------------------------------------------------------------------------
(* Stream handlers *)

\* onChunk of speakParagraph (read r)
linearOnChunk(s, r, index) ==
    LET s1 == [s EXCEPT !.session.chunks.chunkResults = @ \cup {index},
                        !.session.chunks.byKey = @ \cup {s.reads[r].chunkTexts[index]}]
    IN  tryPlayNextChunk(s1, r)

\* mutant: the linear error handler only shows the toast
linearOnErrorKeepsSession(s, r) ==
    [s EXCEPT !.reads[r].toasts = Append(@, "error")]

\* onError of speakParagraph
linearOnError(s, r) ==
    [stopSession(s, "error") EXCEPT !.reads[r].toasts = Append(@, "error")]

\* onDisconnect of speakParagraph
linearOnDisconnect(s, r) ==
    IF ~s.reads[r].allDelivered /\ HasSession(s) /\ ~s.session.cancelled
    THEN [stopSession(s, "error") EXCEPT !.reads[r].toasts = Append(@, "disconnect")]
    ELSE s

\* mutant: the roam result is played without being put in the cache
roamOnChunkSkipsCache(s, owner) ==
    IF ~HasSession(s) \/ s.session.cancelled THEN s
    ELSE IF s.session.roam.debounceToken # owner.token THEN s
    ELSE startChunkPlayback(s, owner.slice, owner.startIndex, 0)

\* onChunk of requestChunkPlayback
roamOnChunk(s, owner) ==
    IF ~HasSession(s) \/ s.session.cancelled THEN s
    ELSE IF s.session.roam.debounceToken # owner.token THEN s
    ELSE startChunkPlayback(
            [s EXCEPT !.session.chunks.byKey = @ \cup {owner.chunkText}],
            owner.slice, owner.startIndex, 0)

\* mutant: a roam stream error stops the session like a linear one
roamOnErrorStops(s, owner) ==
    IF s.session.roam.debounceToken # owner.token THEN s
    ELSE [stopSession(s, "error") EXCEPT !.obs.roamToasts = Append(@, "error")]

\* onError of requestChunkPlayback
roamOnError(s, owner) ==
    IF s.session.roam.debounceToken # owner.token THEN s
    ELSE [s EXCEPT !.obs.roamToasts = Append(@, "error")]

\* onDisconnect of requestChunkPlayback
roamOnDisconnect(s, owner) ==
    IF ~HasSession(s) \/ s.session.cancelled THEN s
    ELSE IF s.session.roam.debounceToken # owner.token THEN s
    ELSE [s EXCEPT !.obs.roamToasts = Append(@, "disconnect")]

\* the port.onMessage listener of startChunkStream
portOnMessage(s, owner, msg) ==
    IF ~HasSession(s) \/ s.session.cancelled THEN s
    ELSE IF msg.type = "chunk"
         THEN IF owner.kind = "linear" THEN linearOnChunk(s, owner.read, msg.index)
              ELSE roamOnChunk(s, owner)
    ELSE IF msg.type = "done"
         THEN IF owner.kind = "linear"
              THEN [s EXCEPT !.reads[owner.read].allDelivered = TRUE]
              ELSE s
    ELSE IF owner.kind = "linear" THEN linearOnError(s, owner.read)
         ELSE roamOnError(s, owner)

\* the port.onDisconnect listener of startChunkStream
portOnDisconnect(s, owner) ==
    IF HasSession(s) /\ s.session.ignorePortDisconnect
    THEN [s EXCEPT !.session.ignorePortDisconnect = FALSE]
    ELSE IF owner.kind = "linear" THEN linearOnDisconnect(s, owner.read)
         ELSE roamOnDisconnect(s, owner)

-----------------------------------------------------------------------------
(* Actions: tasks of the event loop.  A task starts only when the          *)
(* microtask queue is empty.                                               *)

\* handleSelection / START / activate: replace the session and start a
\* linear read of `region` (speakParagraph up to `await allPlayed`)
Activate(region) ==
    /\ micro = <<>>
    /\ Len(reads) < MaxReads
    /\ LET s0 == stopSession(Machine, "restart")
           r == Len(reads) + 1
           rd == NewRead(region, cachedSettings.max_chars)
           s1 == [s0 EXCEPT !.reads = Append(@, rd),
                            !.session = createSession(r, region),
                            !.obs = [InitObs EXCEPT !.steps = s0.obs.steps,
                                                    !.roamToasts = s0.obs.roamToasts,
                                                    !.liveAudio = s0.obs.liveAudio,
                                                    !.pendingPlay = s0.obs.pendingPlay,
                                                    !.docListeners = s0.obs.docListeners]]
       IN  Becomes(startChunkStream(s1, rd.nchunks, [kind |-> "linear", read |-> r]))

\* the background posts the result of chunk `index`; its loop posts the
\* chunks in order
PortChunk(index) ==
    /\ micro = <<>>
    /\ port.live /\ port.term = "open"
    /\ index \in (0..(port.nchunks - 1)) \ port.delivered
    /\ \A earlier \in 0..(index - 1) : earlier \in port.delivered
    /\ Becomes(portOnMessage([Machine EXCEPT !.port.delivered = @ \cup {index}],
                             port.owner, [type |-> "chunk", index |-> index]))

\* the background posts "done" after the last chunk
PortDone ==
    /\ micro = <<>>
    /\ port.live /\ port.term = "open"
    /\ port.delivered = 0..(port.nchunks - 1)
    /\ Becomes(portOnMessage([Machine EXCEPT !.port.term = "done"],
                             port.owner, [type |-> "done"]))

\* the background posts "error" (a synthesis call failed)
PortError ==
    /\ micro = <<>>
    /\ port.live /\ port.term = "open"
    /\ port.delivered # 0..(port.nchunks - 1)
    /\ Becomes(portOnMessage([Machine EXCEPT !.port.term = "error"],
                             port.owner, [type |-> "error"]))

\* the background end of the port goes away (service worker stopped)
PortDisconnect ==
    /\ micro = <<>>
    /\ port.live
    /\ Becomes(portOnDisconnect([Machine EXCEPT !.port = NoPort], port.owner))

\* audio.onloadedmetadata: applyPending(), then attemptPlay(false)
AudioLoadedMetadata ==
    /\ micro = <<>>
    /\ HasSession(Machine) /\ session.audio.el = "loading"
    /\ LET hi == session.chunks.pendingHighlightIndex
           si == session.chunks.pendingStartIndex
           s1 == IF hi # NullIndex
                 THEN setHighlightByIndex(Machine, hi, session.highlight.activeWords)
                 ELSE Machine
       IN  Becomes([s1 EXCEPT
                      !.session.chunks.pendingHighlightIndex = NullIndex,
                      !.session.chunks.pendingStartIndex = NullIndex,
                      !.session.audio.pos = IF si # NullIndex THEN si ELSE @,
                      !.session.audio.el = "starting"])

\* startHighlightLoop(audio, timingMap)
startHighlightLoop(s) ==
    IF ~HasSession(s) \/ s.session.highlight.running THEN s
    ELSE [s EXCEPT !.session.highlight.running = TRUE, !.ticks.live = TRUE]

\* audio.play() fulfils: the chunk is audible, the highlight loop starts
PlayResolved ==
    /\ micro = <<>>
    /\ HasSession(Machine) /\ session.audio.el = "starting"
    /\ Becomes(startHighlightLoop(
          [Machine EXCEPT !.session.audio.el = "playing",
                          !.session.chunks.pendingHighlightIndex = NullIndex,
                          !.session.chunks.pendingStartIndex = NullIndex]))

\* attemptPlay, catch of NotAllowedError with fromGesture false, treated as
\* any other rejection: toast and cleanup()
attemptPlayRefusedAsFailure(s) == cleanup(s)

\* attemptPlay, catch of NotAllowedError with fromGesture false: the resume
\* listeners are added unless the closure has them, and the promise stays
\* pending
attemptPlayRefused(s) ==
    IF s.session.audio.resumeListeners
    THEN [s EXCEPT !.session.audio.el = "blocked"]
    ELSE [s EXCEPT !.session.audio.el = "blocked",
                   !.session.audio.resumeListeners = TRUE,
                   !.session.audio.regs = @ + 1,
                   !.obs.docListeners = @ + 1]

\* resume(): remove the listeners, then cleanup() on a cancelled session,
\* else attemptPlay(true)
resume(s) ==
    LET s1 == IF s.session.audio.resumeListeners
              THEN [s EXCEPT !.session.audio.resumeListeners = FALSE,
                             !.obs.docListeners = @ - 1]
              ELSE s
    IN  IF s1.session.cancelled THEN cleanup(s1)
        ELSE [s1 EXCEPT !.session.audio.el = "starting",
                        !.session.audio.gesture = TRUE]

\* audio.play() rejects with NotAllowedError outside a user gesture: the
\* resume listeners are registered and the chunk stays pending
PlayBlocked ==
    /\ micro = <<>>
    /\ HasSession(Machine) /\ session.audio.el = "starting"
    /\ ~session.audio.gesture
    /\ Becomes(attemptPlayRefused(Machine))

\* audio.play() rejects otherwise: toast, cleanup()
PlayFailed ==
    /\ micro = <<>>
    /\ HasSession(Machine) /\ session.audio.el = "starting"
    /\ Becomes(cleanup(Machine))

\* a pointer gesture (or the toast's Resume button) while blocked: resume()
ResumeGesture ==
    /\ micro = <<>>
    /\ HasSession(Machine) /\ session.audio.resumeListeners
    /\ Becomes(resume(Machine))

\* audio.onended
AudioEnded ==
    /\ micro = <<>>
    /\ HasSession(Machine) /\ session.audio.el = "playing"
    /\ Becomes(cleanup(Machine))

\* audio.onerror while loading
AudioError ==
    /\ micro = <<>>
    /\ HasSession(Machine) /\ session.audio.el = "loading"
    /\ Becomes(cleanup(Machine))

\* a frame of the highlight loop of the audio that is playing: the clock
\* has reached the next word
Tick ==
    /\ micro = <<>>
    /\ ticks.live
    /\ HasSession(Machine) /\ ~session.cancelled /\ session.audio.el = "playing"
    /\ session.audio.pos + 1 < session.audio.slice.len
    /\ Becomes(setHighlightByIndex(
          [Machine EXCEPT !.session.audio.pos = @ + 1],
          session.audio.pos + 1, session.highlight.activeWords))

\* a frame of a highlight loop whose audio is paused, ended or disposed
DeadTick ==
    /\ micro = <<>>
    /\ ticks.dead > 0
    /\ Becomes(IF HasSession(Machine)
               THEN [Machine EXCEPT !.ticks.dead = @ - 1,
                                    !.session.highlight.running = FALSE]
               ELSE [Machine EXCEPT !.ticks.dead = @ - 1])

\* ArrowRight (direction 1) or ArrowLeft (direction -1)
KeyArrow(direction) ==
    /\ micro = <<>>
    /\ HasSession(Machine)
    /\ obs.steps < MaxSteps
    /\ Becomes(handleRoamNavigation([Machine EXCEPT !.obs.steps = @ + 1], direction))

\* Escape
KeyEscape ==
    /\ micro = <<>>
    /\ HasSession(Machine)
    /\ Becomes(stopSession(Machine, "cancelled"))

\* the debounce timer's callback
TimerFire(handle) ==
    /\ micro = <<>>
    /\ handle \in timers
    /\ Becomes(debounceExpiry([Machine EXCEPT !.timers = @ \ {handle}], handle[2]))

\* microtask: tryPlayNextChunk resumes after `await startChunkPlayback`
ResumeTryPlayNextChunk ==
    /\ micro # <<>>
    /\ Head(micro).k = "tryPlayNextChunk"
    /\ Becomes(tryPlayNextChunkResume([Machine EXCEPT !.micro = Tail(@)],
                                      Head(micro).read))

\* microtask: speakParagraph resumes after `await allPlayed`
ResumeSpeakParagraph ==
    /\ micro # <<>>
    /\ Head(micro).k = "speakParagraph"
    /\ Becomes(speakParagraphResume([Machine EXCEPT !.micro = Tail(@)]))

Init ==
    /\ IdleChunk
    /\ IdleNorm
    /\ IdleSettings
    /\ IdleStream
    /\ IdleRetry
    /\ IdleLocal
    /\ IdleMachine

Next ==
    \/ \E region \in ReadableRegions : Activate(region)
    \/ \E index \in (IF port.live THEN 0..(port.nchunks - 1) ELSE {}) : PortChunk(index)
    \/ PortDone
    \/ PortError
    \/ PortDisconnect
    \/ AudioLoadedMetadata
    \/ PlayResolved
    \/ PlayBlocked
    \/ PlayFailed
    \/ ResumeGesture
    \/ AudioEnded
    \/ AudioError
    \/ Tick
    \/ DeadTick
    \/ \E direction \in {1, -1} : KeyArrow(direction)
    \/ KeyEscape
    \/ \E handle \in timers : TimerFire(handle)
    \/ ResumeTryPlayNextChunk
    \/ ResumeSpeakParagraph

Spec == Init /\ [][Next]_vars

-----------------------------------------------------------------------------
(* Properties of the session machine *)

\* C3: in every linear read the chunks begin playback in the order
\* 0, 1, 2, ...: the k-th chunk to begin in a read's session is chunk k-1.
C3_ChunksBeginInOrder ==
    \A r \in DOMAIN reads :
        \A k \in DOMAIN reads[r].begun : reads[r].begun[k] = k - 1

\* the chunk of its region that holds a word
ChunkOfWord(word) ==
    [ region |-> word[1],
      chunk |-> ensureElementState(word[1], cachedSettings.max_chars).wordToChunkIndex[word[2]] ]

\* C4: after a run of directional steps that each landed before the
\* previous step's debounce timer fired, exactly one debounce expiry
\* proceeds (it is pending, or it has happened once), at most one synthesis
\* request is issued, and it is for the chunk of the word the last step
\* landed on.
C4_DebounceCoalesces ==
    obs.landed # NoWord =>
        /\ obs.proceeded <= 1
        /\ obs.reqs <= obs.proceeded
        /\ obs.reqs = 1 => obs.lastReq = ChunkOfWord(obs.landed)
        /\ (HasSession(Machine) /\ session.roam.active) =>
              \/ obs.proceeded = 0 /\ timers = {<<session.id, session.roam.debounceToken>>}
              \/ obs.proceeded = 1 /\ timers = {}

C4_Witness ==
    /\ obs.burst >= 2
    /\ obs.proceeded = 1
    /\ obs.reqs = 1
    /\ obs.lastReq.chunk = 1

\* tokens other than the session's current debounce token
StaleTokens ==
    IF HasSession(Machine)
    THEN (0..(session.roam.debounceToken + 1)) \ {session.roam.debounceToken}
    ELSE {}

\* what a roam request made for word 0 of `region` with `token` closes over
StaleOwner(token, region) ==
    [ kind |-> "roam", token |-> token,
      chunkText |-> ensureElementState(region, cachedSettings.max_chars).chunkTexts[0],
      slice |-> ensureElementState(region, cachedSettings.max_chars).chunkWords[0],
      startIndex |-> 0 ]

StaleCallbackHasNoEffect ==
    \A token \in StaleTokens :
        /\ debounceExpiry(Machine, token) = Machine
        /\ startRoamPlayback(Machine, token) = Machine
        /\ \A region \in ReadableRegions :
              /\ portOnMessage(Machine, StaleOwner(token, region),
                               [type |-> "chunk", index |-> 0]) = Machine
              /\ portOnMessage(Machine, StaleOwner(token, region),
                               [type |-> "error"]) = Machine

TokenStep ==
    (HasSession(Machine) /\ session' # NoSession /\ session'.id = session.id) =>
        /\ session'.roam.debounceToken >= session.roam.debounceToken
        /\ obs'.steps # obs.steps =>
              session'.roam.debounceToken > session.roam.debounceToken

\* C5: the debounce token of a session never decreases and every
\* directional step strictly increases it; a debounce expiry, a
\* startRoamPlayback call or a roam chunk result or error carrying any
\* other token than the current one leaves the whole machine as it is.
C5_StaleTokenIgnored ==
    /\ []StaleCallbackHasNoEffect
    /\ [][TokenStep]_vars

C5_Witness ==
    /\ HasSession(Machine)
    /\ session.roam.debounceToken >= 4
    /\ session.roam.active
    /\ session.audio.el = "playing"

\* C6: the continuation of a superseded linear read changes nothing of the
\* new session: the session's chunk index only counts chunks that began in
\* it, so the new read starts at its own chunk 0.
C6_NewReadStartsAtOwnChunkZero ==
    HasSession(Machine) =>
        session.chunks.chunkIndex <= Len(reads[session.id].begun)

\* the engine at rest
Released ==
    /\ session = NoSession
    /\ obs.liveAudio = 0
    /\ timers = {}
    /\ ~port.live
    /\ display = NoWord

QuietUntilActivation ==
    (session = NoSession /\ session' = NoSession) =>
        /\ display' = display
        /\ port' = port
        /\ timers' = timers
        /\ obs'.liveAudio = obs.liveAudio
        /\ obs'.reqs = obs.reqs
        /\ \A r \in DOMAIN reads : reads'[r].begun = reads[r].begun

\* C7: Escape, from any state with a session, leaves no session, no live
\* audio element, no pending debounce timer, a disconnected port and no
\* highlight; and while there is no session nothing updates the highlight,
\* starts playback, arms a timer or issues a request.
C7_EscapeReleasesEverything ==
    /\ [][KeyEscape => Released']_vars
    /\ [](session = NoSession => Released)
    /\ [][QuietUntilActivation]_vars

C7_Witness ==
    /\ session = NoSession
    /\ obs.landed # NoWord
    /\ obs.proceeded = 0
    /\ ticks.dead > 0

LinearErrorStep ==
    (PortError /\ port.owner.kind = "linear") =>
        /\ reads'[port.owner.read].toasts = <<"error">>
        /\ Released'

ToastOnce ==
    \A r \in DOMAIN reads :
        reads'[r].toasts # reads[r].toasts =>
            /\ reads[r].toasts = <<>>
            /\ Len(reads'[r].toasts) = 1
            /\ Released'

RoamErrorStep ==
    (PortError /\ port.owner.kind = "roam") =>
        /\ obs'.roamToasts = Append(obs.roamToasts, "error")
        /\ session' = session
        /\ session'.roam.active
        /\ display' = display

StepAfterRoamError ==
    (obs'.steps = obs.steps + 1 /\ obs.roamToasts # <<>> /\ obs'.landed # NoWord) =>
        /\ session'.roam.currentElement = obs'.landed[1]
        /\ session'.roam.currentWordIndex = obs'.landed[2]
        /\ display' = obs'.landed
        /\ timers' = {<<session'.id, session'.roam.debounceToken>>}

\* C9: an error message for a roam request shows the failure and leaves
\* the session as it is (alive, roaming, same region and word); a later
\* directional step that lands moves the position and the highlight and
\* arms the debounce timer.
C9_RoamErrorKeepsSession ==
    /\ [][RoamErrorStep]_vars
    /\ [][StepAfterRoamError]_vars

C9_Witness ==
    /\ obs.roamToasts = <<"error">>
    /\ obs.landed # NoWord
    /\ timers # {}

DeadEndStep ==
    (obs'.steps = obs.steps + 1 /\ obs'.landed = NoWord) =>
        /\ session'.paragraph = session.paragraph
        /\ session'.roam.currentElement = session.roam.currentElement
        /\ session'.roam.currentWordIndex = session.roam.currentWordIndex
        /\ display' = display

\* C10: a directional step with no readable word left in its direction
\* leaves the current region, the current word index and the displayed
\* highlight unchanged.
C10_DeadEndStepKeepsPosition ==
    [][DeadEndStep]_vars

C10_Witness ==
    /\ HasSession(Machine)
    /\ session.roam.active
    /\ obs.landed = NoWord
    /\ display # NoWord
    /\ session.roam.currentWordIndex # NullIndex

DeadEndStepHasNoEffect ==
    (obs'.steps = obs.steps + 1 /\ obs'.landed = NoWord) =>
        /\ session'.audio = session.audio
        /\ timers' = timers
        /\ port' = port
        /\ session'.roam.active = session.roam.active

\* C11: a directional step with no readable word left in its direction
\* has no effect on the session: the audio that is playing keeps playing,
\* an armed debounce timer stays armed, a connected request port stays
\* connected and the mode (roam.active) is unchanged.
C11_DeadEndStepIsInert ==
    [][DeadEndStepHasNoEffect]_vars

\* C12: at most one audio element is live and at most one playChunk
\* promise is unresolved, and an unresolved promise is that of the
\* session's current audio: whenever a chunk playback starts, the previous
\* audio has been disposed of and its promise resolved.
C12_SingleAudioResource ==
    /\ obs.liveAudio <= 1
    /\ obs.pendingPlay <= 1
    /\ obs.pendingPlay = 1 => (HasSession(Machine) /\ PlaybackPending(session.audio))
    /\ obs.liveAudio = 1 => (HasSession(Machine) /\ session.audio.el # "none")

\* the second chunk of a linear read is playing
C12_Witness ==
    /\ HasSession(Machine)
    /\ reads[session.id].begun = <<0, 1>>
    /\ session.audio.el = "playing"
    /\ obs.liveAudio = 1
    /\ obs.pendingPlay = 1

\* the word the last step landed on, and what the region's maps give for it
LandedElement == roamElements[session.roam.currentElement]
LandedWord == IF session.roam.currentWordIndex = NullIndex THEN 0 ELSE session.roam.currentWordIndex
TargetChunk == LandedElement.wordToChunkIndex[LandedWord]
TargetText == LandedElement.chunkTexts[TargetChunk]
TargetOffset == LandedElement.wordToChunkOffset[LandedWord]

\* after the step, the target chunk's words are loaded for playback from
\* the landed word's offset
TargetPlaybackStarts ==
    /\ session'.audio.el = "loading"
    /\ session'.audio.slice = MappedBy(LandedElement.chunkWords[TargetChunk], session.id)
    /\ session'.chunks.pendingStartIndex = TargetOffset

\* a debounce expiry that gets past the guards of startRoamPlayback
ExpiryStep == obs'.proceeded = obs.proceeded + 1

\* the result of the roam request arrives while its token is current
RoamArrivalStep ==
    /\ port.live /\ port.owner.kind = "roam"
    /\ port' = [port EXCEPT !.delivered = @ \cup {0}]
    /\ port' # port
    /\ HasSession(Machine) /\ ~session.cancelled
    /\ session.roam.debounceToken = port.owner.token

RoamPlaybackFromCacheOrRequest ==
    /\ ExpiryStep =>
          IF TargetText \in session.chunks.byKey
          THEN /\ port' = port
               /\ obs'.reqs = obs.reqs
               /\ TargetPlaybackStarts
          ELSE /\ obs'.reqs = obs.reqs + 1
               /\ port'.live /\ port'.nchunks = 1 /\ port'.delivered = {}
               /\ port'.owner.chunkText = TargetText
               /\ session'.audio = session.audio
    /\ RoamArrivalStep =>
          /\ port.owner.chunkText = TargetText
          /\ TargetText \in session'.chunks.byKey
          /\ TargetPlaybackStarts

\* C20: a debounce expiry targets the chunk the word-to-chunk map gives for
\* the landed word; on a cache hit no port is opened and no request sent
\* and the cached chunk is loaded at the word's offset; on a miss one
\* request with that one chunk text is sent, and when its result arrives
\* it is cached and the chunk is loaded at the offset.
C20_ExpiryPlaysTargetChunk == [][RoamPlaybackFromCacheOrRequest]_vars

\* an expiry served from the cache: no request since the landed step, the
\* cached chunk loaded at offset 1
C20_Witness ==
    /\ HasSession(Machine)
    /\ session.roam.active
    /\ obs.landed # NoWord
    /\ obs.proceeded = 1
    /\ obs.reqs = 0
    /\ TargetText \in session.chunks.byKey
    /\ session.audio.el = "loading"
    /\ session.chunks.pendingStartIndex = 1
    /\ TargetOffset = 1

-----------------------------------------------------------------------------
(* SpecChunk: chunkTokens on every bounded input *)

DefaultMaxChars == 200      \* GROQ_DEFAULTS.max_chars

\* the word objects mapWords makes for a run of word texts: each is its own
\* object (`at` tells two words of equal text apart)
WordsOf(tokens) == [k \in 1..Len(tokens) |-> [text |-> tokens[k], at |-> k - 1]]

\* words.slice(from, to)
SliceOf(words, from, to) == SubSeq(words, Min(from, Len(words)) + 1, Min(to, Len(words)))

\* mutant: every chunk's slice is taken from the start of the words
buildChunkMapOfWordsNoOffset(words, chunks) ==
    LET counts == {chunks[i].count : i \in 1..Len(chunks)}
        most == IF counts = {} THEN 0 ELSE CHOOSE c \in counts : \A d \in counts : d <= c
        lastOf(w) == CHOOSE i \in 1..Len(chunks) :
                        /\ chunks[i].count > w
                        /\ \A j \in 1..Len(chunks) : chunks[j].count > w => j <= i
    IN  [ chunkTexts |-> [i \in 1..Len(chunks) |-> chunks[i].text],
          chunkWords |-> [i \in 1..Len(chunks) |-> SliceOf(words, 0, chunks[i].count)],
          wordToChunkIndex |-> [w \in 0..(Min(most, Len(words)) - 1) |-> lastOf(w) - 1],
          wordToChunkOffset |-> [w \in 0..(Min(most, Len(words)) - 1) |-> w] ]

\* the loop of buildChunkMap over word objects: chunkWords grows by one
\* slice per chunk, the two index maps are sparse arrays (functions on the
\* word indices assigned so far), chunk indices and offsets are 0-based
RECURSIVE ChunkMapLoop(_, _, _, _, _)
ChunkMapLoop(words, chunks, i, offset, map) ==
    IF i >= Len(chunks) THEN map
    ELSE LET chunk == chunks[i + 1]
             slice == SliceOf(words, offset, offset + chunk.count)
             here == offset..(offset + Len(slice) - 1)
         IN  ChunkMapLoop(words, chunks, i + 1, offset + chunk.count,
                [map EXCEPT
                   !.chunkWords = Append(@, slice),
                   !.wordToChunkIndex =
                       [w \in (DOMAIN @) \cup here |-> IF w \in here THEN i ELSE @[w]],
                   !.wordToChunkOffset =
                       [w \in (DOMAIN @) \cup here |->
                           IF w \in here THEN w - offset ELSE @[w]]])

buildChunkMapOfWords(words, chunks) ==
    ChunkMapLoop(words, chunks, 0, 0,
                 [chunkTexts |-> [i \in 1..Len(chunks) |-> chunks[i].text],
                  chunkWords |-> <<>>,
                  wordToChunkIndex |-> <<>>,
                  wordToChunkOffset |-> <<>>])

\* ensureElementState for a region that has no chunks yet: the chunks of
\* the word texts under maxChars (0: none given, the default applies) and
\* the chunk map over the word objects
ensureElementStateOfWords(words, maxChars) ==
    LET max == IF maxChars = 0 THEN DefaultMaxChars ELSE maxChars
        tokens == [k \in 1..Len(words) |-> words[k].text]
        map == buildChunkMapOfWords(words, chunkTokens(tokens, max))
    IN  [words |-> words, maxChars |-> max,
         chunkTexts |-> map.chunkTexts, chunkWords |-> map.chunkWords,
         wordToChunkIndex |-> map.wordToChunkIndex,
         wordToChunkOffset |-> map.wordToChunkOffset]

InitChunk ==
    /\ ck \in {[tokens |-> in.tokens, maxChars |-> in.maxChars, out |-> <<>>,
                 cuts |-> <<>>, state |-> Null, pc |-> "call"] :
                  in \in ChunkInputs(MaxTokens, MaxMaxChars)}
    /\ IdleNorm
    /\ IdleSettings
    /\ IdleStream
    /\ IdleRetry
    /\ IdleLocal
    /\ IdleMachine

CallChunkTokens ==
    /\ ck.pc = "call"
    /\ ck' = [ck EXCEPT !.out = chunkTokens(ck.tokens, ck.maxChars),
                         !.cuts = chunkCuts(ck.tokens, ck.maxChars),
                         !.pc = "done"]
    /\ UNCHANGED <<tm, cfg, bg, rt, ls, smVars>>

\* ensureElementState(element, maxChars) on a region whose visible words
\* carry the texts ck.tokens
CallEnsureElementState(maxChars) ==
    /\ ck.pc = "call"
    /\ maxChars \in {0, ck.maxChars}
    /\ ck' = [ck EXCEPT !.state = ensureElementStateOfWords(WordsOf(ck.tokens), maxChars),
                         !.pc = "ensured"]
    /\ UNCHANGED <<tm, cfg, bg, rt, ls, smVars>>

NextChunk ==
    \/ CallChunkTokens
    \/ \E maxChars \in 0..MaxMaxChars : CallEnsureElementState(maxChars)

SpecChunk == InitChunk /\ [][NextChunk]_vars

\* C1: the chunks' word counts sum to the number of tokens, every chunk
\* has count >= 1, each chunk's text is exactly the single-space join of
\* its own run of tokens taken in order (nothing dropped, duplicated,
\* reordered or split), and empty input yields no chunk.
C1_ChunksPartitionTokens ==
    ck.pc = "done" =>
        /\ SumSeq([k \in 1..Len(ck.out) |-> ck.out[k].count]) = Len(ck.tokens)
        /\ \A k \in 1..Len(ck.out) :
              /\ ck.out[k].count >= 1
              /\ ck.out[k].text =
                    JoinSpace(SubSeq(ck.tokens, ChunkOffset(ck.out, k) + 1,
                                     ChunkOffset(ck.out, k) + ck.out[k].count))
        /\ (ck.tokens = <<>> => ck.out = <<>>)

\* a run that used the hard cut, the look-ahead extension and an oversized token
C1_Witness ==
    /\ ck.pc = "done"
    /\ Len(ck.tokens) = 4
    /\ Len(ck.out) = 3
    /\ \E k \in 1..Len(ck.out) : Len(ck.out[k].text) > ck.maxChars


-----------------------------------------------------------------------------
(* SpecNorm: normalizeTimingMap on every bounded input *)

InitNorm ==
    /\ \E n \in 1..MaxWords :
          tm \in {[n |-> n, sparse |-> m, dur |-> d, out |-> <<>>, pc |-> "call"] :
                     m \in SparseMaps(n), d \in DurationGrid}
    /\ IdleChunk
    /\ IdleSettings
    /\ IdleStream
    /\ IdleRetry
    /\ IdleLocal
    /\ IdleMachine

CallNormalizeTimingMap ==
    /\ tm.pc = "call"
    /\ tm' = [tm EXCEPT !.out = normalizeTimingMap(tm.n, tm.sparse, tm.dur), !.pc = "done"]
    /\ UNCHANGED <<ck, cfg, bg, rt, ls, smVars>>

\* a frame of the highlight loop looks up the word at playback time `time`
\* in the table normalizeTimingMap returned
CallFindWordIndexByTime(time) ==
    /\ tm.pc = "done"
    /\ tm' = [n |-> tm.n, sparse |-> tm.sparse, dur |-> tm.dur, out |-> tm.out,
              pc |-> "found", time |-> time,
              index |-> findWordIndexByTime(tm.out, time)]
    /\ UNCHANGED <<ck, cfg, bg, rt, ls, smVars>>

\* playChunk normalises the aligned table without a duration (the call
\* above with dur absent); audio.onloadedmetadata then passes the table it
\* got back through normalizeTimingMap again, with audio.duration
CallRenormalizeOnMetadata(duration) ==
    /\ tm.pc = "done"
    /\ tm.dur = RZero
    /\ duration # RZero
    /\ tm' = [n |-> tm.n, sparse |-> tm.sparse, dur |-> duration,
              first |-> tm.out, pc |-> "metadata",
              out |-> normalizeTimingMap(tm.n, tm.out, duration)]
    /\ UNCHANGED <<ck, cfg, bg, rt, ls, smVars>>

NextNorm ==
    \/ CallNormalizeTimingMap
    \/ \E duration \in DurationGrid : CallRenormalizeOnMetadata(duration)
    \/ \E time \in TimeProbes : CallFindWordIndexByTime(time)

SpecNorm == InitNorm /\ [][NextNorm]_vars

\* C2: for a non-empty word list and in-range sparse entries the result
\* has exactly one entry per word, entry i carries wordIndex i, every entry
\* has start < end, and each entry starts no earlier than the previous
\* entry ends (so starts strictly increase).
C2_NormalizedTableMonotonic ==
    tm.pc = "done" =>
        /\ Len(tm.out) = tm.n
        /\ \A k \in 1..tm.n :
              /\ tm.out[k].wordIndex = k - 1
              /\ RLt(tm.out[k].start, tm.out[k].end)
        /\ \A k \in 1..(tm.n - 1) :
              /\ RLe(tm.out[k].end, tm.out[k + 1].start)
              /\ RLt(tm.out[k].start, tm.out[k + 1].start)

\* a run with an interior gap between two known entries, the later one
\* carrying a zero-length span that starts before the earlier one ends
C2_Witness ==
    /\ tm.pc = "done"
    /\ tm.n = 4
    /\ Len(tm.sparse) = 2
    /\ tm.sparse[1].wordIndex = 0
    /\ tm.sparse[2].wordIndex = 3
    /\ tm.sparse[2].start = tm.sparse[2].end
    /\ RLt(tm.sparse[2].start, tm.sparse[1].end)

\* entry k (0-based) of the looked-up table spans the probed time
Spans(k) ==
    /\ RLe(tm.out[k + 1].start, tm.time)
    /\ RLe(tm.time, tm.out[k + 1].end)

\* C13 as stated: 0 before the first start, N-1 after the last end,
\* otherwise the unique index whose span holds the time.
C13_FindReturnsUniqueSpan ==
    tm.pc = "found" =>
        IF RLt(tm.time, tm.out[1].start) THEN tm.index = 0
        ELSE IF RLt(tm.out[tm.n].end, tm.time) THEN tm.index = tm.n - 1
        ELSE /\ Spans(tm.index)
             /\ \A k \in 0..(tm.n - 1) : Spans(k) => k = tm.index

\* C13 amended: 0 at or before the first start, N-1 at or after the last
\* end; otherwise an index whose span holds the time when there is one,
\* and when the time falls in a gap between two entries, the index of the
\* first entry that starts after it.
C13_FindReturnsSpanOrNext ==
    tm.pc = "found" =>
        IF RLe(tm.time, tm.out[1].start) THEN tm.index = 0
        ELSE IF RLe(tm.out[tm.n].end, tm.time) THEN tm.index = tm.n - 1
        ELSE IF \E k \in 0..(tm.n - 1) : Spans(k) THEN Spans(tm.index)
        ELSE /\ RLt(tm.time, tm.out[tm.index + 1].start)
             /\ \A k \in 0..(tm.index - 1) : RLt(tm.out[k + 1].end, tm.time)

\* a lookup in a gap between the entries of a table of 4
C13_Witness ==
    /\ tm.pc = "found"
    /\ tm.n = 4
    /\ RLt(tm.out[1].start, tm.time)
    /\ RLt(tm.time, tm.out[4].end)
    /\ ~ \E k \in 0..3 : Spans(k)
    /\ tm.index = 2

\* x = num / den for a rational x and integers num, den > 0
RIsFraction(x, num, den) == x[1] * den = num * x[2]

\* C14: with no sparse entries and a known duration D, normalizeTimingMap
\* returns n entries, entry i spanning [i*D/n, (i+1)*D/n].
C14_UniformOverDuration ==
    (tm.pc = "done" /\ tm.sparse = <<>> /\ tm.dur # RZero) =>
        /\ Len(tm.out) = tm.n
        /\ \A i \in 0..(tm.n - 1) :
              /\ tm.out[i + 1].wordIndex = i
              /\ RIsFraction(tm.out[i + 1].start, i * tm.dur[1], tm.n * tm.dur[2])
              /\ RIsFraction(tm.out[i + 1].end, (i + 1) * tm.dur[1], tm.n * tm.dur[2])

\* four words and D = 2.5: the last entry ends at 2.5
C14_Witness ==
    /\ tm.pc = "done"
    /\ tm.sparse = <<>>
    /\ tm.n = MaxWords
    /\ tm.dur = <<5, 2>>
    /\ tm.out[tm.n].end = <<5, 2>>
    /\ tm.out[1].start = RZero

\* C15: with an empty transcript, the table in use once the duration D is
\* known is the uniform table over [0, D] (word i spanning
\* [i*D/n, (i+1)*D/n]), no longer the estimate of 0.35 per word.
C15_DurationCorrectsEstimate ==
    (tm.pc = "metadata" /\ tm.sparse = <<>>) =>
        \A i \in 0..(tm.n - 1) :
            /\ RIsFraction(tm.out[i + 1].start, i * tm.dur[1], tm.n * tm.dur[2])
            /\ RIsFraction(tm.out[i + 1].end, (i + 1) * tm.dur[1], tm.n * tm.dur[2])

REq(a, b) == a[1] * b[2] = b[1] * a[2]

\* C16: a timing table given to the highlight loop (the table of the first
\* normalisation, and the one after the duration is known) starts at 0,
\* each entry starts where the previous one ends, and with a known duration
\* the last entry ends at the duration.
C16_TableGaplessAndCovering ==
    (tm.pc \in {"done", "metadata"}) =>
        /\ REq(tm.out[1].start, RZero)
        /\ \A i \in 1..(tm.n - 1) : REq(tm.out[i + 1].start, tm.out[i].end)
        /\ (tm.dur # RZero => REq(tm.out[tm.n].end, tm.dur))

-----------------------------------------------------------------------------
(* SpecAlign: buildTimingMap on every bounded input *)

InitAlign ==
    /\ tm \in {[words |-> in.words, stt |-> in.stt, out |-> <<>>, pc |-> "align"] :
                  in \in AlignInputs(MaxWords, MaxStt)
                           \cup InsertionInputs(MaxWords, MaxInserted)
                           \cup DeletionInputs(MaxDistinct, MaxMissing)}
    /\ IdleChunk
    /\ IdleSettings
    /\ IdleStream
    /\ IdleRetry
    /\ IdleLocal
    /\ IdleMachine

CallBuildTimingMap ==
    /\ tm.pc = "align"
    /\ tm' = [tm EXCEPT !.out = buildTimingMap(tm.words, tm.stt), !.pc = "aligned"]
    /\ UNCHANGED <<ck, cfg, bg, rt, ls, smVars>>

\* buildTimingMap up to its while loop: the normalized sequences and the
\* cursors after the first skipEmptyStt(0) and skipEmptyWord(0)
EnterAlignLoop ==
    /\ tm.pc = "align"
    /\ tm.stt # <<>>
    /\ LET normalizedWords == [k \in 1..Len(tm.words) |-> normalizeWord(tm.words[k])]
           normalizedStt == [k \in 1..Len(tm.stt) |->
                               [text |-> normalizeWord(tm.stt[k].word),
                                start |-> tm.stt[k].start, end |-> tm.stt[k].end]]
       IN  tm' = [words |-> tm.words, stt |-> tm.stt, pc |-> "loop",
                  normalizedWords |-> normalizedWords, normalizedStt |-> normalizedStt,
                  i |-> skipEmptyStt(normalizedStt, 0),
                  j |-> skipEmptyWord(normalizedWords, 0),
                  map |-> <<>>, iterations |-> 0]
    /\ UNCHANGED <<ck, cfg, bg, rt, ls, smVars>>

\* one pass through the body of `while (i < normalizedStt.length && j <
\* normalizedWords.length)`
AlignIteration ==
    /\ tm.pc = "loop"
    /\ tm.i < Len(tm.normalizedStt) /\ tm.j < Len(tm.normalizedWords)
    /\ LET after == AlignStep(tm.normalizedWords, tm.normalizedStt, tm.i, tm.j, tm.map)
       IN  tm' = [tm EXCEPT !.i = after.i, !.j = after.j, !.map = after.map,
                            !.iterations = @ + 1]
    /\ UNCHANGED <<ck, cfg, bg, rt, ls, smVars>>

\* the loop condition fails: return map
AlignReturn ==
    /\ tm.pc = "loop"
    /\ ~(tm.i < Len(tm.normalizedStt) /\ tm.j < Len(tm.normalizedWords))
    /\ tm' = [words |-> tm.words, stt |-> tm.stt, out |-> tm.map, pc |-> "aligned"]
    /\ UNCHANGED <<ck, cfg, bg, rt, ls, smVars>>

NextAlign ==
    \/ CallBuildTimingMap
    \/ EnterAlignLoop
    \/ AlignIteration
    \/ AlignReturn

SpecAlign == InitAlign /\ [][NextAlign]_vars

\* the transcript positions (1-based) whose timing an entry carries
SttPositions(entry) ==
    {p \in 1..Len(tm.stt) :
        tm.stt[p].start = entry.start /\ tm.stt[p].end = entry.end}

\* C17: every entry buildTimingMap returns has a word index inside the
\* word list, the indices strictly increase, and each entry carries the
\* timing of one transcript word, from strictly increasing positions.
C17_AlignmentInRangeAndIncreasing ==
    tm.pc = "aligned" =>
        /\ \A k \in 1..Len(tm.out) :
              /\ tm.out[k].wordIndex \in 0..(Len(tm.words) - 1)
              /\ SttPositions(tm.out[k]) # {}
        /\ \A k \in 1..(Len(tm.out) - 1) :
              /\ tm.out[k].wordIndex < tm.out[k + 1].wordIndex
              /\ \A p \in SttPositions(tm.out[k]), q \in SttPositions(tm.out[k + 1]) : p < q

\* an alignment that skipped a word and a transcript word and emitted an
\* unmatched pair
C17_Witness ==
    /\ tm.pc = "aligned"
    /\ Len(tm.out) >= 2
    /\ \E k \in 1..(Len(tm.out) - 1) : tm.out[k + 1].wordIndex > tm.out[k].wordIndex + 1
    /\ \E k \in 1..(Len(tm.out) - 1) : tm.out[k + 1].start[1] > tm.out[k].start[1] + 2
    /\ \E k \in 1..Len(tm.out) :
          normalizeWord(tm.words[tm.out[k].wordIndex + 1])
              # normalizeWord(tm.stt[SetMin(SttPositions(tm.out[k]))].word)

\* length of the single-space join of the first j tokens given to chunkTokens
JoinedLen(j) == Len(JoinSpace(SubSeq(ck.tokens, 1, j)))

\* a token that ends in ".", "!" or "?", optionally followed by closing
\* quotes or brackets
RECURSIVE EndsSentence(_)
EndsSentence(t) ==
    /\ t # <<>>
    /\ \/ t[Len(t)] \in TerminalChars
       \/ /\ t[Len(t)] \in {"\"", "'", ")", "]"}
          /\ EndsSentence(SubSeq(t, 1, Len(t) - 1))

\* the number of leading tokens that fit in maxChars (the first token is
\* always taken)
FirstFit ==
    SetMin({k \in 1..Len(ck.tokens) :
               k = Len(ck.tokens) \/ JoinedLen(k + 1) > ck.maxChars})

\* C18: when the token after the first FirstFit tokens does not fit, the
\* first chunk runs through the nearest later token that ends a sentence
\* (a plain trailing "." included) within a total length of 1.5 x maxChars,
\* and is cut after FirstFit tokens when there is no such token.
C18_ExtendsToNearestSentenceEnd ==
    (ck.pc = "done" /\ ck.tokens # <<>> /\ FirstFit < Len(ck.tokens)) =>
        LET window == {j \in (FirstFit + 1)..Len(ck.tokens) :
                          /\ 2 * JoinedLen(j) <= 3 * ck.maxChars
                          /\ EndsSentence(ck.tokens[j])}
        IN  ck.out[1].count = (IF window # {} THEN SetMin(window) ELSE FirstFit)

\* the 1-based index of the chunk that holds token i (1-based)
ChunkHolding(i) ==
    CHOOSE k \in 1..Len(ck.out) :
        ChunkOffset(ck.out, k) < i /\ i <= ChunkOffset(ck.out, k) + ck.out[k].count

LastTokenOf(k) == ck.tokens[ChunkOffset(ck.out, k) + ck.out[k].count]

-----------------------------------------------------------------------------
(* SpecSettings: one session's chunk-result cache (chunkResults.byKey) and *)
(* element states (roam.elements) while chrome.storage changes the cached  *)
(* settings.  Only what these two stores depend on is kept: the roam step  *)
(* and the debounce expiry are reduced to their ensureElementState and     *)
(* cache calls.                                                            *)

MaxSettingChanges == 2      \* storage changes in one run
Voices == {"v1", "v2"}
MaxCharsValues == {3, 5}
SettingsValues == [max_chars : MaxCharsValues, voice : Voices]

EmptyChunkMap ==
    [chunkTexts |-> <<>>, chunkWords |-> <<>>,
     wordToChunkIndex |-> <<>>, wordToChunkOffset |-> <<>>]

\* buildElementState(element, words) as the source has it: the words, no
\* maxChars (0 stands for null) and empty derived fields
FreshElementState(region) == [region |-> region, maxChars |-> 0, map |-> EmptyChunkMap]

\* the chunk maps of the regions under the values max_chars takes
ChunkMaps ==
    [region \in Regions |->
        [max \in MaxCharsValues |->
            buildChunkMap(region, chunkTokens(Doc[region], max))]]

ChunkMapOf(region, max) ==
    IF max \in MaxCharsValues THEN ChunkMaps[region][max]
    ELSE buildChunkMap(region, chunkTokens(Doc[region], max))

\* mutant: the derived fields are rebuilt only when there are none
ensureStoredKeepsOldChunks(elements, region, maxChars) ==
    LET state == IF elements[region] = Null THEN FreshElementState(region)
                 ELSE elements[region]
        max == IF maxChars = 0 THEN DefaultMaxChars ELSE maxChars
    IN  [elements EXCEPT ![region] =
            IF state.map.chunkTexts = <<>>
            THEN [region |-> region, maxChars |-> max, map |-> ChunkMapOf(region, max)]
            ELSE state]

\* ensureElementState(element, maxChars) on the stored map roam.elements:
\* the map after the call (the state returned is its entry for the region)
ensureStored(elements, region, maxChars) ==
    LET state == IF elements[region] = Null THEN FreshElementState(region)
                 ELSE elements[region]
        max == IF maxChars = 0 THEN DefaultMaxChars ELSE maxChars
    IN  [elements EXCEPT ![region] =
            IF state.maxChars # max \/ state.map.chunkTexts = <<>>
            THEN [region |-> region, maxChars |-> max, map |-> ChunkMapOf(region, max)]
            ELSE state]

\* cache.get(chunkText): the voice the stored result was synthesised with,
\* or "none"
cacheGet(byKey, chunkText) ==
    IF \E entry \in byKey : entry[1] = chunkText
    THEN (CHOOSE entry \in byKey : entry[1] = chunkText)[2]
    ELSE "none"

\* cacheChunkResult(chunkText, result): Map.set replaces the entry
cacheChunkResult(byKey, chunkText, voice) ==
    {entry \in byKey : entry[1] # chunkText} \cup {<<chunkText, voice>>}

NoCfgSession ==
    [live |-> FALSE, elements |-> [region \in Regions |-> Null],
     built |-> [region \in Regions |-> 0], byKey |-> {}, pending |-> Null]

InitSettings ==
    /\ cfg \in {[pc |-> "run", settings |-> values, changes |-> 0, sess |-> NoCfgSession,
                 last |-> [op |-> "none"]] : values \in SettingsValues}
    /\ IdleChunk
    /\ IdleNorm
    /\ IdleStream
    /\ IdleRetry
    /\ IdleLocal
    /\ IdleMachine

CfgStep(new) ==
    /\ cfg' = new
    /\ UNCHANGED <<ck, tm, bg, rt, ls, smVars>>

\* speakParagraph: mapWords once, createSession(paragraph, words)
CacheSessionStart(region) ==
    /\ cfg.pc = "run"
    /\ CfgStep([cfg EXCEPT
          !.sess = [live |-> TRUE,
                    elements |-> [r \in Regions |->
                                    IF r = region THEN FreshElementState(r) ELSE Null],
                    built |-> [r \in Regions |-> IF r = region THEN 1 ELSE 0],
                    byKey |-> {}, pending |-> Null],
          !.last = [op |-> "start"]])

\* stopSession: session = null
CacheSessionStop ==
    /\ cfg.pc = "run" /\ cfg.sess.live
    /\ CfgStep([cfg EXCEPT !.sess = NoCfgSession, !.last = [op |-> "stop"]])

\* chrome.storage.onChanged: cachedSettings takes the new values
StorageChanged(values) ==
    /\ cfg.pc = "run"
    /\ cfg.changes < MaxSettingChanges
    /\ values # cfg.settings
    /\ CfgStep([cfg EXCEPT !.settings = values, !.changes = @ + 1,
                           !.last = [op |-> "changed"]])

\* handleRoamNavigation: ensureElementState(element, cachedSettings.max_chars)
RoamStepEnsure(region) ==
    /\ cfg.pc = "run" /\ cfg.sess.live
    /\ CfgStep([cfg EXCEPT
          !.sess.elements = ensureStored(@, region, cfg.settings.max_chars),
          !.sess.built[region] = IF cfg.sess.elements[region] = Null THEN @ + 1 ELSE @,
          !.sess.pending = Null,
          !.last = [op |-> "ensure", region |-> region, max |-> cfg.settings.max_chars,
                    was |-> IF cfg.sess.elements[region] = Null THEN 0
                            ELSE cfg.sess.elements[region].maxChars]])

\* startRoamPlayback for a landed word: ensureElementState, then the cache
\* lookup; a miss sends the request for the chunk text
RoamExpiryLookup(region, wordIndex) ==
    /\ cfg.pc = "run" /\ cfg.sess.live
    /\ wordIndex \in 0..(Len(Doc[region]) - 1)
    /\ LET elements == ensureStored(cfg.sess.elements, region, cfg.settings.max_chars)
           state == elements[region]
           chunkText == state.map.chunkTexts[state.map.wordToChunkIndex[wordIndex]]
           cached == cacheGet(cfg.sess.byKey, chunkText)
       IN  CfgStep([cfg EXCEPT
              !.sess.elements = elements,
              !.sess.built[region] = IF cfg.sess.elements[region] = Null THEN @ + 1 ELSE @,
              !.sess.pending = IF cached # "none" THEN Null
                               ELSE [chunkText |-> chunkText, voice |-> "none"],
              !.last = IF cached # "none"
                       THEN [op |-> "hit", chunkText |-> chunkText, voice |-> cached,
                             configured |-> cfg.settings.voice,
                             region |-> region, max |-> cfg.settings.max_chars]
                       ELSE [op |-> "miss", chunkText |-> chunkText,
                             region |-> region, max |-> cfg.settings.max_chars]])

\* the background synthesises the requested chunk with the voice its
\* settings have then
BackgroundSynthesizes ==
    /\ cfg.pc = "run" /\ cfg.sess.live
    /\ cfg.sess.pending # Null /\ cfg.sess.pending.voice = "none"
    /\ CfgStep([cfg EXCEPT !.sess.pending.voice = cfg.settings.voice,
                           !.last = [op |-> "synth"]])

\* onChunk of requestChunkPlayback: cacheChunkResult(chunkText, msg.result)
RoamChunkArrives ==
    /\ cfg.pc = "run" /\ cfg.sess.live
    /\ cfg.sess.pending # Null /\ cfg.sess.pending.voice # "none"
    /\ CfgStep([cfg EXCEPT
          !.sess.byKey = cacheChunkResult(@, cfg.sess.pending.chunkText,
                                          cfg.sess.pending.voice),
          !.sess.pending = Null,
          !.last = [op |-> "cached"]])

NextSettings ==
    \/ \E region \in ReadableRegions : CacheSessionStart(region)
    \/ CacheSessionStop
    \/ \E values \in SettingsValues : StorageChanged(values)
    \/ \E region \in Regions : RoamStepEnsure(region)
    \/ \E region \in ReadableRegions, wordIndex \in 0..(MaxWords - 1) :
          RoamExpiryLookup(region, wordIndex)
    \/ BackgroundSynthesizes
    \/ RoamChunkArrives

SpecSettings == InitSettings /\ [][NextSettings]_vars

\* C21: a lookup in the session's chunk-result cache never returns a result
\* synthesised with a voice other than the one configured at the lookup.
C21_CacheHitHasConfiguredVoice ==
    (cfg.pc = "run" /\ cfg.last.op = "hit") => cfg.last.voice = cfg.last.configured

-----------------------------------------------------------------------------
(* Retry / backoff of the background: withRetry(fn, retries).  A run of     *)
(* withRetry is [pc, retries, attempt, lastErr, timer, settled] with the    *)
(* outcomes of its fn() calls (history) and the delays it has waited.       *)

MAX_RETRIES == 2
BASE_DELAY_MS == 800

\* Math.pow(2, attempt)
RECURSIVE Pow2(_)
Pow2(k) == IF k = 0 THEN 1 ELSE 2 * Pow2(k - 1)

\* the DOMException of an aborted fetch
AbortError == [name |-> "AbortError", message |-> 0]

\* settlements of a promise
Fulfilled(v) == [ok |-> TRUE, value |-> v, err |-> Null]
Rejected(e) == [ok |-> FALSE, value |-> Null, err |-> e]

\* withRetry(fn, retries) up to its first `await fn()`
withRetry(retries) ==
    [ pc |-> "fn", retries |-> retries, attempt |-> 0, lastErr |-> Null,
      timer |-> 0, settled |-> Null, history |-> <<>>, delays |-> <<>> ]

\* the catch block retrying an AbortError like any other error
fnSettlesRetriesAbort(w, outcome) ==
    LET h == [w EXCEPT !.history = Append(@, outcome)]
    IN  IF outcome.ok THEN [h EXCEPT !.pc = "settled", !.settled = outcome]
        ELSE
          LET c == [h EXCEPT !.lastErr = outcome.err]
          IN  IF c.attempt < c.retries
              THEN [c EXCEPT !.pc = "delay", !.timer = BASE_DELAY_MS * Pow2(c.attempt)]
              ELSE [c EXCEPT !.attempt = @ + 1, !.pc = "settled",
                             !.settled = Rejected(c.lastErr)]

\* `return await fn()` settles with `outcome`: the value is returned, or
\* the catch block runs; after the last attempt the loop ends and lastErr
\* is thrown
fnSettles(w, outcome) ==
    LET h == [w EXCEPT !.history = Append(@, outcome)]
    IN  IF outcome.ok THEN [h EXCEPT !.pc = "settled", !.settled = outcome]
        ELSE
          LET c == [h EXCEPT !.lastErr = outcome.err]
          IN  IF outcome.err.name = "AbortError"
              THEN [c EXCEPT !.pc = "settled", !.settled = Rejected(outcome.err)]
              ELSE IF c.attempt < c.retries
              THEN [c EXCEPT !.pc = "delay", !.timer = BASE_DELAY_MS * Pow2(c.attempt)]
              ELSE [c EXCEPT !.attempt = @ + 1, !.pc = "settled",
                             !.settled = Rejected(c.lastErr)]

\* the setTimeout of the catch block fires: `attempt++`, the next fn() call
delayElapses(w) ==
    [w EXCEPT !.pc = "fn", !.attempt = @ + 1, !.delays = Append(@, w.timer), !.timer = 0]

\* what one fn() call settles with: a value, an error thrown by fn (HTTP
\* status not ok), a network failure of fetch, or an aborted fetch
FnValues == {1, 2}
FnErrors ==
    {[name |-> n, message |-> m] : n \in {"Error", "TypeError"}, m \in {1, 2}}
FnOutcomes ==
    {Fulfilled(v) : v \in FnValues}
        \cup {Rejected(e) : e \in FnErrors \cup {AbortError}}

-----------------------------------------------------------------------------
(* SpecStream: the background's handler of one "start" message: per chunk  *)
(* the IndexedDB lookup, synthesis and transcription, with the port        *)
(* disconnecting at any await; and the timing table the content script    *)
(* builds for every chunk message it receives.                             *)

\* the word texts of the chunks of the request
StreamChunks == << <<<<"a">>, <<"B">>>>, <<<<"a">>>>, <<<<"B">>, <<"a">>, <<"a">>>> >>

\* what fetchStt returns for chunk i (0-based) when it succeeds: one
\* transcript word per word of the chunk
TranscriptOf(i) ==
    SttWords([k \in 1..Len(StreamChunks[i + 1]) |->
                 normalizeWord(StreamChunks[i + 1][k])])

\* what one attempt of a fetch settles with: the response, an error (HTTP
\* status not ok, network failure), or the AbortError of an aborted fetch
FetchOutcomes ==
    {Fulfilled(1), Rejected([name |-> "Error", message |-> 1]), Rejected(AbortError)}

ChunkMsg(i, words) == [type |-> "chunk", index |-> i, words |-> words]

StreamClosed(b) == [b EXCEPT !.phase = "closed"]

\* the end of one iteration: `i++`, the loop test, `if (aborted) break`,
\* and after the loop the "done" message unless aborted
nextIteration(b) ==
    IF b.i + 1 >= Len(StreamChunks)
    THEN IF b.aborted THEN StreamClosed(b)
         ELSE StreamClosed([b EXCEPT !.posted = Append(@, [type |-> "done"])])
    ELSE IF b.aborted THEN StreamClosed(b)
         ELSE [b EXCEPT !.i = @ + 1, !.phase = "cache"]

\* `try { port.postMessage(msg) } catch (_) { break }`, then the next
\* iteration; postMessage throws on a disconnected port
postChunk(b, msg) ==
    IF b.aborted THEN StreamClosed(b)
    ELSE nextIteration([b EXCEPT !.posted = Append(@, msg)])

\* the outer catch: an error other than AbortError is reported
postError(b) ==
    IF b.aborted THEN StreamClosed(b)
    ELSE StreamClosed([b EXCEPT !.posted = Append(@, [type |-> "error"])])

\* the `break` of the loop on an AbortError of fetchStt: the loop is left
\* and "done" is posted unless the controller's signal is aborted
afterSttAbortError(b) ==
    IF b.aborted THEN StreamClosed(b)
    ELSE StreamClosed([b EXCEPT !.posted = Append(@, [type |-> "done"])])

\* after `await fetchTts(...)`: the result goes on to transcription; an
\* AbortError leaves the handler at the outer catch's `return`, any other
\* error is posted
afterTts(b, settled) ==
    IF settled.ok
    THEN IF b.aborted THEN StreamClosed(b)
         ELSE [b EXCEPT !.phase = "stt", !.retry = withRetry(MAX_RETRIES)]
    ELSE IF settled.err = AbortError THEN StreamClosed(b)
    ELSE postError(b)

\* mutant: a failed transcription is thrown on to the outer catch
afterSttFatal(b, ok) ==
    IF b.aborted THEN StreamClosed(b)
    ELSE IF ok THEN postChunk(b, ChunkMsg(b.i, TranscriptOf(b.i)))
    ELSE postError([b EXCEPT !.sttFailed = @ \cup {b.i}])

\* after `await fetchStt(...)`: AbortError breaks, any other failure leaves
\* words = [], then the result is posted
afterStt(b, ok) ==
    IF b.aborted THEN StreamClosed(b)
    ELSE IF ok THEN postChunk(b, ChunkMsg(b.i, TranscriptOf(b.i)))
    ELSE postChunk([b EXCEPT !.sttFailed = @ \cup {b.i}], ChunkMsg(b.i, <<>>))

InitStream ==
    /\ bg = [pc |-> "run", phase |-> "start", i |-> 0, aborted |-> FALSE,
             retry |-> Null, posted |-> <<>>, sttFailed |-> {}, recv |-> 0,
             tables |-> <<>>]
    /\ IdleChunk
    /\ IdleNorm
    /\ IdleSettings
    /\ IdleRetry
    /\ IdleLocal
    /\ IdleMachine

BgStep(new) ==
    /\ bg' = new
    /\ UNCHANGED <<ck, tm, cfg, rt, ls, smVars>>

\* the "start" message: settings are read; without an API key an error is
\* posted
StreamStart(hasKey) ==
    /\ bg.pc = "run" /\ bg.phase = "start"
    /\ BgStep(IF hasKey THEN [bg EXCEPT !.phase = "cache"] ELSE postError(bg))

\* `await cacheGet(ck)`: a stored result (with or without transcript) is
\* posted, otherwise synthesis starts
CacheAnswers(hit, withWords) ==
    /\ bg.pc = "run" /\ bg.phase = "cache"
    /\ BgStep(IF hit
              THEN postChunk(bg, ChunkMsg(bg.i, IF withWords THEN TranscriptOf(bg.i) ELSE <<>>))
              ELSE [bg EXCEPT !.phase = "tts", !.retry = withRetry(MAX_RETRIES)])

\* one attempt of fetchTts settles (the fetch answers, fails, or is aborted
\* by the timer of fetchWithTimeout or by the controller); withRetry goes
\* on to its delay or settles `await fetchTts(...)`
TtsAnswers(outcome) ==
    /\ bg.pc = "run" /\ bg.phase = "tts" /\ bg.retry.pc = "fn"
    /\ LET w == fnSettles(bg.retry, outcome)
       IN  BgStep(IF w.pc = "delay" THEN [bg EXCEPT !.retry = w]
                  ELSE afterTts([bg EXCEPT !.retry = Null], w.settled))

\* one attempt of fetchStt settles
SttAnswers(outcome) ==
    /\ bg.pc = "run" /\ bg.phase = "stt" /\ bg.retry.pc = "fn"
    /\ LET w == fnSettles(bg.retry, outcome)
           b == [bg EXCEPT !.retry = Null]
       IN  BgStep(IF w.pc = "delay" THEN [bg EXCEPT !.retry = w]
                  ELSE IF w.settled.ok THEN afterStt(b, TRUE)
                  ELSE IF w.settled.err = AbortError THEN afterSttAbortError(b)
                  ELSE afterStt(b, FALSE))

\* the backoff timer of withRetry fires inside fetchTts or fetchStt
BackoffElapses ==
    /\ bg.pc = "run" /\ bg.phase \in {"tts", "stt"} /\ bg.retry.pc = "delay"
    /\ BgStep([bg EXCEPT !.retry = delayElapses(bg.retry)])

\* port.onDisconnect: controller.abort()
StreamPortDisconnects ==
    /\ bg.pc = "run" /\ bg.phase # "closed" /\ ~bg.aborted
    /\ BgStep([bg EXCEPT !.aborted = TRUE])

\* the content script takes the next message; for a chunk, playChunk
\* builds the table from the transcript and normalises it, and again when
\* the audio reports its duration
ContentReceives(duration) ==
    /\ bg.pc = "run" /\ bg.recv < Len(bg.posted)
    /\ LET msg == bg.posted[bg.recv + 1]
           words == StreamChunks[msg.index + 1]
           first == normalizeTimingMap(Len(words), buildTimingMap(words, msg.words), RZero)
           table == normalizeTimingMap(Len(words), first, duration)
       IN  BgStep([bg EXCEPT
              !.recv = @ + 1,
              !.tables = IF msg.type = "chunk"
                         THEN Append(@, [index |-> msg.index, first |-> first,
                                         table |-> table, duration |-> duration])
                         ELSE @])

NextStream ==
    \/ \E hasKey \in BOOLEAN : StreamStart(hasKey)
    \/ \E hit \in BOOLEAN, withWords \in BOOLEAN : CacheAnswers(hit, withWords)
    \/ \E outcome \in FetchOutcomes : TtsAnswers(outcome)
    \/ \E outcome \in FetchOutcomes : SttAnswers(outcome)
    \/ BackoffElapses
    \/ StreamPortDisconnects
    \/ \E duration \in DurationGrid \ {RZero} : ContentReceives(duration)

SpecStream == InitStream /\ [][NextStream]_vars

\* a table of equal spans laid end to end from time 0
UniformTable(table) ==
    /\ RLt(RZero, table[1].end)
    /\ \A k \in 1..Len(table) :
          /\ table[k].wordIndex = k - 1
          /\ REq(table[k].start, RMul(RInt(k - 1), table[1].end))
          /\ REq(table[k].end, RMul(RInt(k), table[1].end))

\* the step in which a transcription fails: the chunk is posted with no
\* words, nothing posted in the step is an error, and the loop goes on to
\* the next chunk (or posts "done" after the last one)
SttFailureStep ==
    (bg.pc = "run" /\ bg'.pc = "run" /\ bg'.sttFailed # bg.sttFailed) =>
        /\ Len(bg'.posted) > Len(bg.posted)
        /\ SubSeq(bg'.posted, 1, Len(bg.posted) + 1)
              = Append(bg.posted, ChunkMsg(bg.i, <<>>))
        /\ \A k \in (Len(bg.posted) + 1)..Len(bg'.posted) : bg'.posted[k].type # "error"
        /\ IF bg.i + 1 < Len(StreamChunks)
           THEN bg'.phase = "cache" /\ bg'.i = bg.i + 1
           ELSE bg'.posted[Len(bg'.posted)] = [type |-> "done"]

\* the tables the content script plays a chunk with after its
\* transcription failed
FailedChunksPlayUniform ==
    bg.pc = "run" =>
        \A k \in 1..Len(bg.tables) :
            bg.tables[k].index \in bg.sttFailed =>
                /\ Len(bg.tables[k].table) = Len(StreamChunks[bg.tables[k].index + 1])
                /\ UniformTable(bg.tables[k].first)
                /\ UniformTable(bg.tables[k].table)

-----------------------------------------------------------------------------
(* SpecLinear: one linear read left alone. The reader activates a region  *)
(* once; the background delivers every chunk and "done"; every audio      *)
(* element loads, plays (after a resume gesture where autoplay is         *)
(* refused) and ends. No directional key, no Escape, no second            *)
(* activation, no error and no disconnect occur. The fairness conditions  *)
(* are the ones the browser gives: a posted message is delivered, a       *)
(* loaded audio starts, a playing audio ends, a queued microtask runs.    *)

ActivateOnce(region) == reads = <<>> /\ Activate(region)

NextLinear ==
    \/ \E region \in ReadableRegions : ActivateOnce(region)
    \/ \E index \in (IF port.live THEN 0..(port.nchunks - 1) ELSE {}) : PortChunk(index)
    \/ PortDone
    \/ AudioLoadedMetadata
    \/ PlayResolved
    \/ PlayBlocked
    \/ ResumeGesture
    \/ AudioEnded
    \/ Tick
    \/ DeadTick
    \/ ResumeTryPlayNextChunk
    \/ ResumeSpeakParagraph

SpecLinear ==
    /\ Init
    /\ [][NextLinear]_vars
    /\ WF_vars(\E region \in ReadableRegions : ActivateOnce(region))
    /\ WF_vars(\E index \in (IF port.live THEN 0..(port.nchunks - 1) ELSE {}) : PortChunk(index))
    /\ WF_vars(PortDone)
    /\ WF_vars(AudioLoadedMetadata)
    /\ WF_vars(PlayResolved)
    /\ WF_vars(ResumeGesture)
    /\ WF_vars(AudioEnded)
    /\ WF_vars(ResumeTryPlayNextChunk)
    /\ WF_vars(ResumeSpeakParagraph)

\* the read has completed: every chunk began playing once, in order, the
\* audio is disposed, the session is retained and marked done, and a word
\* is still highlighted
LinearReadCompleted ==
    /\ Len(reads) = 1
    /\ HasSession(Machine)
    /\ session.done /\ session.cancelled /\ ~session.roam.active
    /\ session.audio.el = "none" /\ obs.liveAudio = 0
    /\ reads[1].resolved
    /\ reads[1].begun = [k \in 1..reads[1].nchunks |-> k - 1]
    /\ display # NoWord
    /\ display[1] = reads[1].region

\* a step from a completed read leaves it completed, with the same highlight
CompletedIsStable ==
    (HasSession(Machine) /\ session.done) =>
        (HasSession(Machine') /\ session'.done /\ display' = display)

\* C23: a linear read whose chunks are all delivered and whose playbacks
\* all end, with no roam step, stop or error, eventually plays every chunk
\* and completes; it completes once (a completed read stays completed),
\* the audio is disposed, the session is retained and marked done, and
\* the final highlight stays
C23_LinearReadCompletesOnce ==
    /\ <>[]LinearReadCompleted
    /\ [][CompletedIsStable]_vars

C23_Witness ==
    /\ LinearReadCompleted
    /\ reads[1].nchunks = 2
    /\ display = <<reads[1].region, Len(Doc[reads[1].region]) - 1>>

\* the state ensureElementState returned in the step just taken
EnsuredState == cfg.sess.elements[cfg.last.region]

\* C24: the state ensureElementState(region, m) returns has maxChars = m and
\* chunk texts, chunk word slices and both index maps equal to the chunking
\* of the region's word list under m, also after max_chars changed; the
\* word list of a region is built at most once in a session.
C24_EnsuredStateMatchesMaxChars ==
    (cfg.pc = "run" /\ cfg.sess.live) =>
        /\ cfg.last.op \in {"ensure", "hit", "miss"} =>
              /\ EnsuredState.maxChars = cfg.last.max
              /\ cfg.last.max = cfg.settings.max_chars
              /\ EnsuredState.map =
                    buildChunkMap(cfg.last.region,
                                  chunkTokens(Doc[cfg.last.region], cfg.last.max))
        /\ \A region \in Regions : cfg.sess.built[region] <= 1

\* a region chunked under the old value is ensured again after the change
C24_Witness ==
    /\ cfg.pc = "run" /\ cfg.sess.live
    /\ cfg.last.op = "ensure"
    /\ cfg.last.was \notin {0, cfg.last.max}
    /\ cfg.changes >= 1
    /\ Cardinality(DOMAIN EnsuredState.map.chunkTexts) >= 2
    /\ cfg.sess.built[cfg.last.region] = 1

\* the refused start leaves the chunk pending: same session, not
\* cancelled by the step, chunk index kept, promise unresolved, no
\* continuation queued
RefusedKeepsChunkPending ==
    /\ HasSession(Machine')
    /\ session'.id = session.id
    /\ session'.cancelled = session.cancelled
    /\ session'.done = session.done
    /\ session'.chunks.chunkIndex = session.chunks.chunkIndex
    /\ session'.audio.el = "blocked"
    /\ micro' = micro
    /\ obs'.pendingPlay = obs.pendingPlay
    /\ reads' = reads

\* the resume gesture plays the same audio and words again and sends
\* nothing to the background
ResumeRetriesSameAudio ==
    ~session.cancelled =>
        /\ HasSession(Machine')
        /\ session'.audio.el = "starting"
        /\ session'.audio.slice = session.audio.slice
        /\ session'.audio.awaiter = session.audio.awaiter
        /\ session'.audio.pos = session.audio.pos
        /\ session'.highlight.activeWords = session.highlight.activeWords
        /\ session'.chunks.chunkIndex = session.chunks.chunkIndex
        /\ port' = port
        /\ obs'.reqs = obs.reqs
        /\ obs'.liveAudio = obs.liveAudio
        /\ ~session'.audio.resumeListeners
        /\ obs'.docListeners = 0

\* one set of resume listeners at most, on the document exactly while the
\* playback that registered it is blocked, registered once per playback
ResumeListenersOnce ==
    /\ obs.docListeners =
          IF HasSession(Machine) /\ session.audio.resumeListeners THEN 1 ELSE 0
    /\ HasSession(Machine) =>
          /\ session.audio.regs <= 1
          /\ session.audio.resumeListeners <=> session.audio.el = "blocked"
          /\ session.audio.gesture => ~session.audio.resumeListeners

CurrentIndex == RoamStartIndex(Machine, session.roam.currentElement)

\* the nearest region after (direction 1) or before (direction -1) the
\* element that has at least one word, 0 if there is none
NearestReadable(element, direction) ==
    LET ahead == {r \in ReadableRegions :
                    IF direction > 0 THEN r > element ELSE r < element}
    IN  IF ahead = {} THEN 0
        ELSE CHOOSE r \in ahead :
                \A other \in ahead :
                    IF direction > 0 THEN r <= other ELSE r >= other

\* where the claim says the step lands (NoWord: nowhere)
ExpectedLanding(element, index, direction) ==
    IF index + direction \in 0..(Len(Doc[element]) - 1)
    THEN <<element, index + direction>>
    ELSE LET r == NearestReadable(element, direction)
         IN  IF r = 0 THEN NoWord
             ELSE <<r, IF direction > 0 THEN 0 ELSE Len(Doc[r]) - 1>>

StepLandsAsExpected(direction) ==
    /\ obs'.landed = ExpectedLanding(session.roam.currentElement, CurrentIndex, direction)
    /\ obs'.landed # NoWord =>
          /\ HasSession(Machine')
          /\ session'.roam.currentElement = obs'.landed[1]
          /\ session'.paragraph = obs'.landed[1]
          /\ session'.roam.currentWordIndex = obs'.landed[2]
          /\ obs'.landed[2] \in 0..(Len(Doc[obs'.landed[1]]) - 1)
          /\ display' = obs'.landed

RoamIndexValid ==
    (HasSession(Machine) /\ session.roam.currentWordIndex # NullIndex) =>
        session.roam.currentWordIndex \in
            0..(Len(Doc[session.roam.currentElement]) - 1)

\* C26: a directional step lands on index+1 / index-1 of the same region
\* when that is in bounds, otherwise on the first (forward) or last
\* (backward) word of the nearest region in that direction that has a
\* word, empty regions being skipped; the current word index is always a
\* valid index into the current region's word list.
C26_StepLandsOnNeighbourWord ==
    /\ [][\A direction \in {1, -1} : KeyArrow(direction) => StepLandsAsExpected(direction)]_vars
    /\ []RoamIndexValid

\* a backward step from the first word of region 3 crossed the empty
\* region 2 and landed on the last word of region 1
C26_Witness ==
    /\ HasSession(Machine)
    /\ reads[Len(reads)].region = 3
    /\ obs.landed = <<1, Len(Doc[1]) - 1>>
    /\ session.roam.currentElement = 1
    /\ display = obs.landed

\* the two known entries of a two-entry input, by word index
GapBefore == IF tm.sparse[1].wordIndex < tm.sparse[2].wordIndex THEN tm.sparse[1] ELSE tm.sparse[2]
GapAfter == IF tm.sparse[1].wordIndex < tm.sparse[2].wordIndex THEN tm.sparse[2] ELSE tm.sparse[1]
GapWords == GapAfter.wordIndex - GapBefore.wordIndex - 1

\* C27: the g missing words between two known entries a and b each get
\* the span (b.start - a.end) / g and tile [a.end, b.start]: the first
\* starts at a.end and the last ends at b.start.
C27_InteriorGapTiled ==
    (/\ tm.pc = "done"
     /\ Len(tm.sparse) = 2
     /\ GapWords >= 1
     /\ RLt(GapBefore.start, GapBefore.end)
     /\ RLt(GapBefore.end, GapAfter.start)) =>
        LET span == RDivInt(RSub(GapAfter.start, GapBefore.end), GapWords)
        IN  \A k \in 1..GapWords :
               LET entry == tm.out[GapBefore.wordIndex + k + 1]
               IN  /\ REq(entry.start, RAdd(GapBefore.end, RMul(span, RInt(k - 1))))
                   /\ REq(entry.end, RAdd(GapBefore.end, RMul(span, RInt(k))))

-----------------------------------------------------------------------------
(* Insertions and deletions in the transcript (SpecAlign)                  *)

NormalizedWords == [k \in 1..Len(tm.words) |-> normalizeWord(tm.words[k])]
NormalizedStt == [k \in 1..Len(tm.stt) |-> normalizeWord(tm.stt[k].word)]

\* the positions of the entries that do not normalize to empty, in order
RECURSIVE NonEmptyPositions(_, _)
NonEmptyPositions(seq, k) ==
    IF k > Len(seq) THEN <<>>
    ELSE IF seq[k] = <<>> THEN NonEmptyPositions(seq, k + 1)
    ELSE <<k>> \o NonEmptyPositions(seq, k + 1)

\* a normalized sequence with the empty forms left out
NonEmptyForms(seq) ==
    LET pos == NonEmptyPositions(seq, 1)
    IN  [r \in 1..Len(pos) |-> seq[pos[r]]]

NoEmptyForms ==
    /\ \A k \in 1..Len(tm.words) : normalizeWord(tm.words[k]) # <<>>
    /\ \A k \in 1..Len(tm.stt) : normalizeWord(tm.stt[k].word) # <<>>

IsRun(S) == \A x \in S, y \in S : \A z \in x..y : z \in S

\* the places in `transcript` of the words that equal no word of `original`
ExtraRanks(original, transcript) ==
    {r \in 1..Len(transcript) :
        \A q \in 1..Len(original) : transcript[r] # original[q]}

\* the place in the transcript of the q-th original word when the extra
\* words are the run `extra`
OwnRank(extra, q) ==
    IF extra = {} \/ \A r \in extra : q < r THEN q
    ELSE q + Cardinality(extra)

\* `transcript` is `original` with at most 3 consecutive extra words at one
\* position
HasInsertion(original, transcript) ==
    LET extra == ExtraRanks(original, transcript)
    IN  /\ IsRun(extra)
        /\ Cardinality(extra) <= 3
        /\ Len(transcript) = Len(original) + Cardinality(extra)
        /\ \A q \in 1..Len(original) :
              /\ OwnRank(extra, q) \notin extra
              /\ transcript[OwnRank(extra, q)] = original[q]

TranscriptHasInsertion ==
    HasInsertion(NonEmptyForms(NormalizedWords), NonEmptyForms(NormalizedStt))

\* every word index has one entry, with the timing of the word's own
\* transcript occurrence
EachWordOwnTiming ==
    LET sttPos == NonEmptyPositions(NormalizedStt, 1)
        extra == ExtraRanks(NonEmptyForms(NormalizedWords), NonEmptyForms(NormalizedStt))
    IN  /\ Len(tm.out) = Len(tm.words)
        /\ \A k \in 1..Len(tm.words) : normalizeWord(tm.words[k]) # <<>>
        /\ \A k \in 1..Len(tm.words) :
              tm.out[k] = TEntry(k - 1, tm.stt[sttPos[OwnRank(extra, k)]].start,
                                        tm.stt[sttPos[OwnRank(extra, k)]].end)

PairwiseDistinct(seq) == \A k, l \in 1..Len(seq) : k # l => seq[k] # seq[l]

\* seq without the m entries after position p
WithoutRun(seq, p, m) ==
    [k \in 1..(Len(seq) - m) |-> IF k <= p THEN seq[k] ELSE seq[k + m]]

\* the transcript is the original sequence with at most 3 consecutive
\* words missing at one position
TranscriptHasDeletion ==
    LET transcript == NonEmptyForms(NormalizedStt)
    IN  \E p \in 0..Len(tm.words), m \in 0..3 :
           /\ p + m <= Len(tm.words)
           /\ NonEmptyForms(WithoutRun(NormalizedWords, p, m)) = transcript

\* the entries for the words the transcript has, each with the timing of
\* the transcript word of the same normalized form, and no other entry
PresentWordsOwnTiming ==
    LET nw == NormalizedWords
        ns == NormalizedStt
        present == {k \in 1..Len(nw) :
                      nw[k] # <<>> /\ \E r \in 1..Len(ns) : ns[r] = nw[k]}
        own(k) == CHOOSE r \in 1..Len(ns) : ns[r] = nw[k]
    IN  /\ Len(tm.out) = Cardinality(present)
        /\ \A e \in 1..Len(tm.out) :
              /\ tm.out[e].wordIndex + 1 \in present
              /\ tm.out[e] = TEntry(tm.out[e].wordIndex,
                                    tm.stt[own(tm.out[e].wordIndex + 1)].start,
                                    tm.stt[own(tm.out[e].wordIndex + 1)].end)
        /\ \A e, f \in 1..Len(tm.out) : e < f => tm.out[e].wordIndex < tm.out[f].wordIndex

-----------------------------------------------------------------------------
(* The cursors of buildTimingMap's loop (SpecAlign)                        *)

CursorsAdvance ==
    /\ tm'.i >= tm.i
    /\ tm'.j >= tm.j
    /\ tm'.i > tm.i \/ tm'.j > tm.j

LoopBounded ==
    tm.pc = "loop" =>
        /\ tm.i <= Len(tm.stt) /\ tm.j <= Len(tm.words)
        /\ tm.iterations <= tm.i + tm.j
        /\ ENABLED (AlignIteration \/ AlignReturn)
        /\ (tm.i = Len(tm.stt) \/ tm.j = Len(tm.words)) => ~ENABLED AlignIteration

\* C30: every iteration of buildTimingMap's loop moves the transcript
\* cursor or the original-word cursor forward and neither backward; the
\* loop runs only while both cursors are inside their sequences, so it ends
\* after at most |transcript| + |words| iterations, as soon as a cursor is
\* exhausted, and returns the map.
C30_AlignLoopTerminates ==
    /\ [][AlignIteration => CursorsAdvance]_vars
    /\ [][AlignReturn =>
            /\ tm.i = Len(tm.stt) \/ tm.j = Len(tm.words)
            /\ tm'.out = buildTimingMap(tm.words, tm.stt)]_vars
    /\ []LoopBounded

\* a run of the loop that skipped on both sides and fell back once
C30_Witness ==
    /\ tm.pc = "loop"
    /\ tm.iterations >= 3
    /\ tm.i = Len(tm.stt)
    /\ tm.j < Len(tm.words)
    /\ Len(tm.map) < tm.iterations

-----------------------------------------------------------------------------
(* A directional step during a linear read *)

\* the session is in roaming: a directional step has been taken in it and
\* it has not been stopped since
Roaming == HasSession(Machine) /\ session.roam.active

\* no linear read begins a chunk or shows a failure toast in this step
LinearReadsQuiet ==
    \A r \in DOMAIN reads :
        /\ reads'[r].begun = reads[r].begun
        /\ reads'[r].toasts = reads[r].toasts

\* the step leaves no port connected
PortReleased == ~port'.live /\ ~session'.port

\* the same session object is still there and still roaming
StaysRoaming ==
    /\ HasSession(Machine)'
    /\ session'.id = session.id
    /\ session'.roam.active
    /\ ~session'.cancelled

ExplicitStopOrActivation ==
    KeyEscape \/ \E region \in ReadableRegions : Activate(region)

\* C31: once a directional step has been taken during a linear read, no
\* further chunk of a linear read begins playback, the step disconnects the
\* port and no linear stream handler shows a failure, and the session stays
\* roaming (the end of the linear read included) until Escape or a new
\* activation.
C31_StepEndsLinearRead ==
    /\ [][\A direction \in {1, -1} :
             KeyArrow(direction) => (LinearReadsQuiet /\ PortReleased /\ StaysRoaming)]_vars
    /\ [][Roaming => LinearReadsQuiet]_vars
    /\ [][(Roaming /\ ~ExplicitStopOrActivation) => StaysRoaming]_vars

\* a step was taken while chunk 0 played and chunk 1 was buffered; the
\* linear read has ended (speakParagraph returned) and the session roams
C31_Witness ==
    /\ Roaming
    /\ micro = <<>>
    /\ reads[session.id].resolved
    /\ reads[session.id].begun = <<0>>
    /\ 1 \in session.chunks.chunkResults
    /\ ~port.live
    /\ reads[session.id].toasts = <<>>

-----------------------------------------------------------------------------
(* SpecRetry: one call of withRetry(fn) with the default number of        *)
(* retries, over every sequence of outcomes of fn                          *)

InitRetry ==
    /\ rt = withRetry(MAX_RETRIES)
    /\ IdleChunk
    /\ IdleNorm
    /\ IdleSettings
    /\ IdleStream
    /\ IdleLocal
    /\ IdleMachine

RtStep(new) ==
    /\ rt' = new
    /\ UNCHANGED <<ck, tm, cfg, bg, ls, smVars>>

\* the promise of the current fn() call settles
FnSettles(outcome) ==
    /\ rt.pc = "fn"
    /\ RtStep(fnSettles(rt, outcome))

\* the backoff timer fires
DelayElapses ==
    /\ rt.pc = "delay"
    /\ RtStep(delayElapses(rt))

NextRetry ==
    \/ \E outcome \in FnOutcomes : FnSettles(outcome)
    \/ DelayElapses

SpecRetry == InitRetry /\ [][NextRetry]_vars

\* the last fn() outcome so far
LastOutcome == rt.history[Len(rt.history)]

\* C32: withRetry(fn) makes at most 3 attempts; nothing follows a success
\* or an AbortError; it waits 800 ms before the second attempt and 1600 ms
\* before the third; it returns the value of the attempt that succeeded,
\* rethrows an AbortError at once, and throws the last error after 3
\* failed attempts.
C32_WithRetryContract ==
    LET h == rt.history
        backoff == <<800, 1600>>
    IN  /\ Len(h) <= 3
        /\ \A k \in 1..(Len(h) - 1) : ~h[k].ok /\ h[k].err # AbortError
        /\ rt.pc = "fn" => rt.delays = SubSeq(backoff, 1, Len(h))
        /\ rt.pc = "delay" =>
              /\ Len(h) \in 1..2
              /\ rt.delays = SubSeq(backoff, 1, Len(h) - 1)
              /\ rt.timer = backoff[Len(h)]
        /\ rt.pc = "settled" => rt.delays = SubSeq(backoff, 1, Len(h) - 1)
        /\ rt.pc = "settled" <=>
              /\ h # <<>>
              /\ LastOutcome.ok \/ LastOutcome.err = AbortError \/ Len(h) = 3
        /\ rt.pc = "settled" => rt.settled = LastOutcome

\* three attempts failed with different errors: both delays were waited
\* and the third error is thrown
C32_Witness ==
    /\ rt.pc = "settled"
    /\ Len(rt.history) = 3
    /\ rt.history[1].err # rt.history[3].err
    /\ rt.history[2].err # rt.history[3].err
    /\ rt.settled = Rejected(rt.history[3].err)
    /\ rt.delays = <<800, 1600>>

-----------------------------------------------------------------------------
(* Length of the chunks *)

\* Math.round(maxChars * 0.5) as a number: the integer nearest to half of
\* maxChars, the upper one of two
RoundHalf(maxChars) == CHOOSE r \in 0..maxChars : 2 * r \in {maxChars, maxChars + 1}

\* chunk k of the result holds two or more tokens
HoldsSeveral(k) == ck.cuts[k].count >= 2

\* the length bounds of the chunks that hold two or more tokens, with
\* `ends(token)` as the test of a sentence-terminal token
LengthBound(ends(_)) ==
    ck.pc = "done" =>
        \A k \in 1..Len(ck.cuts) :
            HoldsSeveral(k) =>
                /\ Len(ck.cuts[k].text) <= ck.maxChars + RoundHalf(ck.maxChars)
                /\ Len(ck.cuts[k].text) > ck.maxChars =>
                      (ck.cuts[k].lookAhead /\ ends(LastTokenOf(k)))
                /\ ~ck.cuts[k].lookAhead => Len(ck.cuts[k].text) <= ck.maxChars

\* the bounds hold with the tokens that isSentenceEnd accepts
LengthBoundOfAcceptedEnds == LengthBound(isSentenceEnd)

\* C33: a chunk of two or more tokens is at most maxChars +
\* round(maxChars x 0.5) long; it is longer than maxChars only when the
\* look-ahead extended it to a last token that ends a sentence ('.', '!' or
\* '?' optionally followed by closing quotes or brackets); cut without
\* look-ahead it is at most maxChars long.
C33_ChunkLengthBound == LengthBound(EndsSentence)

-----------------------------------------------------------------------------
(* The highlight loop of the playing audio *)

\* C34: whenever the audio of a chunk is playing in the current session, a
\* highlight loop bound to that audio is active (its next tick is
\* scheduled), whether or not a tick of an earlier audio's loop is still
\* to run.
C34_PlayingAudioHasLoop ==
    (HasSession(Machine) /\ session.audio.el = "playing") => ticks.live

-----------------------------------------------------------------------------
(* Normalising a normalised table *)

\* two tables with the same entries
SameTable(a, b) ==
    /\ Len(a) = Len(b)
    /\ \A k \in 1..Len(a) :
          /\ a[k].wordIndex = b[k].wordIndex
          /\ REq(a[k].start, b[k].start)
          /\ REq(a[k].end, b[k].end)

\* C35: normalizeTimingMap applied to its own result, with the same
\* duration, returns that result; and the call playChunk makes when the
\* metadata loads leaves a table built from a non-empty transcript as it was.
C35_RenormalizationIsNoOp ==
    /\ tm.pc = "done" =>
          SameTable(normalizeTimingMap(tm.n, tm.out, tm.dur), tm.out)
    /\ (tm.pc = "metadata" /\ tm.sparse # <<>>) => SameTable(tm.out, tm.first)



\* ---------------------------------------------------------------------
\* Messages of the stream port
\* ---------------------------------------------------------------------

\* the positions of the posted messages of one type
PostedOfType(type) == {k \in 1..Len(bg.posted) : bg.posted[k].type = type}

\* the chunk messages posted so far carry the indices 0, 1, 2, ... in order
ChunkIndicesInOrder ==
    \A k \in PostedOfType("chunk") :
        bg.posted[k].index = Cardinality({j \in PostedOfType("chunk") : j < k})

\* every "done" comes after a chunk message for every chunk of the request
DoneAfterEveryChunk ==
    \A k \in PostedOfType("done") :
        \A i \in 0..(Len(StreamChunks) - 1) :
            \E j \in PostedOfType("chunk") : j < k /\ bg.posted[j].index = i

NeverDoneAndError == PostedOfType("done") = {} \/ PostedOfType("error") = {}

\* C36: on one stream port the chunk messages are posted with the indices
\* 0, 1, 2, ... in increasing order, each index at most once; "done" is
\* posted only after a chunk message has been posted for every chunk of the
\* request; "done" and "error" are never both posted.
C36_StreamMessageOrder ==
    ChunkIndicesInOrder /\ DoneAfterEveryChunk /\ NeverDoneAndError

\* ---------------------------------------------------------------------
\* Stream on a port that stays connected: the handler's awaits settle
\* (getSettings, cacheGet, each fetch by its response, its error or the
\* timer of fetchWithTimeout, each backoff by its timer)
\* ---------------------------------------------------------------------

NextStreamConnected ==
    \/ \E hasKey \in BOOLEAN : StreamStart(hasKey)
    \/ \E hit \in BOOLEAN, withWords \in BOOLEAN : CacheAnswers(hit, withWords)
    \/ \E outcome \in FetchOutcomes : TtsAnswers(outcome)
    \/ \E outcome \in FetchOutcomes : SttAnswers(outcome)
    \/ BackoffElapses
    \/ \E duration \in DurationGrid \ {RZero} : ContentReceives(duration)

SpecStreamConnected ==
    /\ InitStream
    /\ [][NextStreamConnected]_vars
    /\ WF_vars(\E hasKey \in BOOLEAN : StreamStart(hasKey))
    /\ WF_vars(\E hit \in BOOLEAN, withWords \in BOOLEAN : CacheAnswers(hit, withWords))
    /\ WF_vars(\E outcome \in FetchOutcomes : TtsAnswers(outcome))
    /\ WF_vars(\E outcome \in FetchOutcomes : SttAnswers(outcome))
    /\ WF_vars(BackoffElapses)

StartRequested == bg.pc = "run"
TerminalPosted == PostedOfType("done") # {} \/ PostedOfType("error") # {}

\* the handler always runs to its end on a connected port
HandlerReturns == StartRequested ~> (bg.pc = "run" /\ bg.phase = "closed")

\* C37: every start request on a port that stays connected is eventually
\* answered by a terminal message, "done" or "error", whatever the speech
\* and transcription requests do (answer, fail, time out).
C37_StartGetsTerminalMessage == StartRequested ~> TerminalPosted

\* ---------------------------------------------------------------------
\* The chunk map of a region state
\* ---------------------------------------------------------------------

WordIndices == 0..(Len(ck.state.words) - 1)

\* both index maps are defined on exactly the word indices of the region
IndexMapsTotal ==
    /\ DOMAIN ck.state.wordToChunkIndex = WordIndices
    /\ DOMAIN ck.state.wordToChunkOffset = WordIndices

\* the maps lead from every word index to that word, and the text of its
\* chunk is the single-space join of the chunk's word texts
IndexMapsConsistent ==
    \A w \in WordIndices :
        LET i == ck.state.wordToChunkIndex[w]
            j == ck.state.wordToChunkOffset[w]
        IN  /\ i \in 0..(Len(ck.state.chunkWords) - 1)
            /\ j \in 0..(Len(ck.state.chunkWords[i + 1]) - 1)
            /\ ck.state.chunkWords[i + 1][j + 1] = ck.state.words[w + 1]
            /\ ck.state.chunkTexts[i + 1] =
                  JoinSpace([k \in 1..Len(ck.state.chunkWords[i + 1]) |->
                                ck.state.chunkWords[i + 1][k].text])

\* the chunk map the session machine uses for the regions of the document
\* is the one the loop builds
DocMapsAgree ==
    \A region \in Regions :
        LET chunks == chunkTokens(Doc[region], cachedSettings.max_chars)
            byLoop == buildChunkMapOfWords(WordsOf(Doc[region]), chunks)
            short == buildChunkMap(region, chunks)
        IN  /\ \A w \in 0..(Len(Doc[region]) - 1) :
                  /\ short.wordToChunkIndex[w] = byLoop.wordToChunkIndex[w]
                  /\ short.wordToChunkOffset[w] = byLoop.wordToChunkOffset[w]
            /\ \A i \in 0..(Len(chunks) - 1) :
                  /\ short.chunkTexts[i] = byLoop.chunkTexts[i + 1]
                  /\ short.chunkWords[i].off = byLoop.chunkWords[i + 1][1].at
                  /\ short.chunkWords[i].len = Len(byLoop.chunkWords[i + 1])

\* C38: in every region state built by ensureElementState the two index
\* maps are total over [0, words.length) and consistent with the chunk
\* list: chunkWords[wordToChunkIndex[w]][wordToChunkOffset[w]] is word w and
\* chunkTexts[wordToChunkIndex[w]] is the single-space join of that chunk's
\* word texts.
C38_IndexMapsTotalAndConsistent ==
    ck.pc = "ensured" => IndexMapsTotal /\ IndexMapsConsistent

\* a region of four words in three chunks, the last word at offset 0 of
\* the last chunk
C38_Witness ==
    /\ ck.pc = "ensured"
    /\ Len(ck.state.words) = 4
    /\ Len(ck.state.chunkWords) = 3
    /\ ck.state.wordToChunkIndex[3] = 2
    /\ ck.state.wordToChunkOffset[3] = 0
    /\ \E w \in WordIndices : ck.state.wordToChunkOffset[w] = 1

\* ---------------------------------------------------------------------
\* The first step out of a linear read
\* ---------------------------------------------------------------------

\* a linear read is under way (no step was taken yet) and its playback
\* has highlighted a word of the region being read
LinearReadHighlighted ==
    /\ HasSession(Machine)
    /\ ~session.roam.active
    /\ session.roam.currentWordIndex = NullIndex
    /\ ~session.done
    /\ display # NoWord
    /\ display[1] = session.roam.currentElement

FirstStepLeavesHighlightedWord(direction) ==
    LinearReadHighlighted => obs'.landed = ExpectedLanding(display[1], display[2], direction)

\* C39: the first directional step of a linear read, taken after playback
\* highlighted word w of the region, lands exactly one word from w (w+1
\* forward, w-1 backward) whenever it is pressed, also between the end of
\* one chunk and the first highlight of the next.
C39_FirstStepLandsNextToHighlight ==
    [][\A direction \in {1, -1} :
          KeyArrow(direction) => FirstStepLeavesHighlightedWord(direction)]_vars

-----------------------------------------------------------------------------
(* SpecLocal: the engine's cached local settings.  chrome.storage.local   *)
(* is written by other contexts (the options page); the engine reads it    *)
(* with getLocalSettings and follows it with the storage.onChanged         *)
(* listener.  What the browser sends to the engine - the values of a read  *)
(* and the change events - arrives in the order it was sent.               *)

MaxLocalWrites == 2     \* storage writes made by other contexts
MaxLocalCalls == 2      \* calls of getLocalSettings

LocalKeys == {"max_chars", "auto_speak", "agent_mode", "agent_model", "speech_mode"}
OtherKeys == {"api_key"}

Absent == "absent"              \* a key not in storage; newValue: undefined
StoredValues == {"v1", "v2"}    \* values a key is stored with, none the default

LOCAL_SETTINGS_DEFAULTS == [key \in LocalKeys |-> "default"]

NoSettings == [null |-> TRUE]   \* cachedSettings = null

\* chrome.storage.local.get(LOCAL_SETTINGS_DEFAULTS, callback): the values
\* handed to the callback
storageGet(storage) ==
    [key \in LocalKeys |->
        IF storage[key] = Absent THEN LOCAL_SETTINGS_DEFAULTS[key] ELSE storage[key]]

\* the storage.onChanged listener (`seeded` records that the cache in use
\* was made from the defaults by the listener)
onChanged(l, key, newValue, area) ==
    IF area # "local" THEN l
    ELSE LET cached == IF l.cachedSettings = NoSettings THEN LOCAL_SETTINGS_DEFAULTS
                       ELSE l.cachedSettings
         IN  [l EXCEPT
                 !.cachedSettings =
                     IF key \in LocalKeys
                     THEN [cached EXCEPT ![key] = IF newValue = Absent
                                                  THEN LOCAL_SETTINGS_DEFAULTS[key]
                                                  ELSE newValue]
                     ELSE cached,
                 !.seeded = @ \/ l.cachedSettings = NoSettings]

\* getLocalSettings(), up to the promise it returns
getLocalSettings(l) ==
    IF l.cachedSettings # NoSettings THEN l
    ELSE IF l.settingsPromise THEN l
    ELSE [l EXCEPT !.settingsPromise = TRUE, !.pendingGets = @ + 1]

\* the callback of chrome.storage.local.get
getLocalSettingsCallback(l, values) ==
    [l EXCEPT !.cachedSettings = values, !.settingsPromise = FALSE, !.seeded = FALSE]

\* handleRoamNavigation: cachedSettings?.max_chars ?? LOCAL_SETTINGS_DEFAULTS.max_chars
roamMaxChars(l) ==
    IF l.cachedSettings = NoSettings THEN LOCAL_SETTINGS_DEFAULTS["max_chars"]
    ELSE l.cachedSettings["max_chars"]

InitLocal ==
    /\ ls \in {[pc |-> "run", storage |-> storage, cachedSettings |-> NoSettings,
                 settingsPromise |-> FALSE, pendingGets |-> 0, queue |-> <<>>,
                 seeded |-> FALSE, writes |-> 0, calls |-> 0] :
                  storage \in [LocalKeys -> StoredValues \cup {Absent}]}
    /\ IdleChunk
    /\ IdleNorm
    /\ IdleSettings
    /\ IdleStream
    /\ IdleRetry
    /\ IdleMachine

LsStep(new) ==
    /\ ls' = new
    /\ UNCHANGED <<ck, tm, cfg, bg, rt, smVars>>

\* another context stores a key of chrome.storage.local (value Absent: it
\* removes the key); the browser sends the change event
LocalStorageSet(key, value) ==
    /\ ls.pc = "run" /\ ls.writes < MaxLocalWrites
    /\ key \in LocalKeys => value # ls.storage[key]
    /\ LsStep([ls EXCEPT
          !.storage = IF key \in LocalKeys THEN [@ EXCEPT ![key] = value] ELSE @,
          !.queue = Append(@, [type |-> "changed", area |-> "local",
                               key |-> key, newValue |-> value]),
          !.writes = @ + 1])

\* another context stores a key of chrome.storage.sync
SyncStorageSet(key) ==
    /\ ls.pc = "run" /\ ls.writes < MaxLocalWrites
    /\ LsStep([ls EXCEPT
          !.queue = Append(@, [type |-> "changed", area |-> "sync",
                               key |-> key, newValue |-> "v1"]),
          !.writes = @ + 1])

\* the engine calls getLocalSettings()
CallGetLocalSettings ==
    /\ ls.pc = "run" /\ ls.calls < MaxLocalCalls
    /\ LsStep([getLocalSettings(ls) EXCEPT !.calls = @ + 1])

\* the browser serves a read: the values as storage has them now
StorageAnswersGet ==
    /\ ls.pc = "run" /\ ls.pendingGets > 0
    /\ LsStep([ls EXCEPT
          !.pendingGets = @ - 1,
          !.queue = Append(@, [type |-> "values", values |-> storageGet(ls.storage)])])

\* the engine takes the next thing the browser sent
LocalDelivers ==
    /\ ls.pc = "run" /\ ls.queue # <<>>
    /\ LET msg == Head(ls.queue)
           l == [ls EXCEPT !.queue = Tail(@)]
       IN  LsStep(IF msg.type = "changed"
                  THEN onChanged(l, msg.key, msg.newValue, msg.area)
                  ELSE getLocalSettingsCallback(l, msg.values))

NextLocal ==
    \/ \E key \in LocalKeys \cup OtherKeys, value \in StoredValues \cup {Absent} :
          LocalStorageSet(key, value)
    \/ \E key \in {"max_chars"} \cup OtherKeys : SyncStorageSet(key)
    \/ CallGetLocalSettings
    \/ StorageAnswersGet
    \/ LocalDelivers

SpecLocal == InitLocal /\ [][NextLocal]_vars

\* nothing is on its way to the engine
LocalSettled == ls.queue = <<>> /\ ls.pendingGets = 0

\* storage reads sent and not yet answered to the engine
ReadsInFlight ==
    ls.pendingGets + Cardinality({k \in 1..Len(ls.queue) : ls.queue[k].type = "values"})

\* the cache, once it exists and everything sent has arrived, holds for
\* every local key the value storage has for it
CacheHoldsStoredValues ==
    (ls.pc = "run" /\ ls.cachedSettings # NoSettings /\ LocalSettled) =>
        ls.cachedSettings = storageGet(ls.storage)

AtMostOneReadInFlight == ls.pc = "run" => ReadsInFlight <= 1

\* a cache that was loaded from storage, rather than made from the
\* defaults by the listener, follows storage
LoadedCacheHoldsStoredValues ==
    (ls.pc = "run" /\ ls.cachedSettings # NoSettings /\ LocalSettled /\ ~ls.seeded) =>
        ls.cachedSettings = storageGet(ls.storage)

\* C40: under every interleaving of settings reads and storage change
\* events the cached settings hold, for each of max_chars, auto_speak,
\* agent_mode, agent_model and speech_mode, the value storage has: a change
\* event before or during the first load never leaves another key at its
\* built-in default instead of its stored value; and at most one storage
\* read is in flight at a time.
C40_CacheFollowsStorage == CacheHoldsStoredValues /\ AtMostOneReadInFlight
====
